---- MODULE Spec2Model ----
(***************************************************************************)
(* Model of the ClampingPlateManager ingestion pipeline:                    *)
(*   utils/ExcelProcessor.js        work-history tokenizer, row grouper     *)
(*   utils/ModelFolderValidator.js  asset-folder validator                  *)
(*   src/convert_excel_to_json.js   scanner, matcher, writer, run           *)
(* Text is modelled as a sequence of one-character strings, so that trim,   *)
(* split and the regular expression are computed and not assumed.           *)
(***************************************************************************)
EXTENDS Integers, Sequences, FiniteSets, TLC

VARIABLES
  workHistoryText,  \* parseWorkHistory: the cell text handed in
  projects,         \* parseWorkHistory: the returned array
  parsed,           \* parseWorkHistory has returned
  jsonData,         \* processWorksheet: the rows of the worksheet (array of arrays)
  cellStyles,       \* worksheet[<A><row>].s, by 1-based worksheet row
  plateData,        \* ExcelProcessor.plateData
  processed,        \* processWorksheet has returned
  headerInfo,       \* processWorksheet: what findHeaderRow returned
  sheetDataRows,    \* processWorksheet: dataRows, handed to groupRowsByMergedPlates
  modelsDir,        \* the directory <modelScanPath>/models and its listing
  validationResult, \* what validateModelFolders returned
  validated,        \* validateModelFolders has returned or thrown
  workbook,         \* the Excel file: readable or not, its embedded images
  scanDir,          \* the directory modelScanPath without its entry "models"
  plateConfig,      \* what matchPlatesWithModels returned
  matched,          \* matchPlatesWithModels has returned
  previousConfig,   \* what the call of matchPlatesWithModels before the last returned
  previousMatched,  \* matchPlatesWithModels has returned twice
  styleRow,         \* hasRedBackground: the row handed in (1-based)
  redBackground,    \* hasRedBackground: the returned value
  redChecked,       \* hasRedBackground has returned
  platesMap,        \* PlateService.plates, by plate id
  savedPlates,      \* the plates last handed to dataManager.savePlates with success
  platesBefore,     \* PlateService.plates when the last operation was called
  lastCall,         \* the last PlateService operation and how it ended
  opCount,          \* the number of PlateService operations called
  workOrders,       \* WorkOrderService.workOrders, by work order id
  lastOrderCall,    \* the last WorkOrderService operation and how it ended
  orderOps,         \* the number of WorkOrderService operations called
  execPc,           \* Executor.runAutoMode: where the call stands
  isRunning,        \* Executor.isRunning
  stopCalled,       \* Executor.stop has been called since runAutoMode was
  cycles,           \* the processing cycles begun, counted up to MaxCycles
  failures,         \* the processing cycles that failed, counted up to MaxCycles
  document,         \* what generateJsonConfig returned
  generated,        \* generateJsonConfig has returned
  pc,               \* convertExcelToJson: where each run stands
  now,              \* the clock, in milliseconds
  permanentDir,     \* the files of the permanent data directory, by path
  written,          \* the paths each run has written in permanentDir
  outputPath,       \* convertExcelToJson: outputPath of each run
  validationOf,     \* convertExcelToJson: how the validation of each run ended
  scanIssuesOf      \* convertExcelToJson: scanResult.validationIssues.length

parseVars == <<workHistoryText, projects, parsed>>

sheetVars == <<jsonData, cellStyles, plateData, processed, headerInfo,
               sheetDataRows>>

validatorVars == <<modelsDir, validationResult, validated>>

matcherVars == <<workbook, scanDir, plateConfig, matched, previousConfig,
                 previousMatched>>

styleVars == <<styleRow, redBackground, redChecked>>

serviceVars == <<platesMap, savedPlates, platesBefore, lastCall, opCount>>

indexVars == <<document, generated>>

orderVars == <<workOrders, lastOrderCall, orderOps>>

executorVars == <<execPc, isRunning, stopCalled, cycles, failures>>

runVars == <<pc, now, permanentDir, written, outputPath, validationOf,
             scanIssuesOf>>

vars == <<workHistoryText, projects, parsed,
          jsonData, cellStyles, plateData, processed, headerInfo,
          sheetDataRows,
          modelsDir, validationResult, validated,
          workbook, scanDir, plateConfig, matched, previousConfig,
          previousMatched,
          styleRow, redBackground, redChecked,
          platesMap, savedPlates, platesBefore, lastCall, opCount,
          document, generated,
          workOrders, lastOrderCall, orderOps,
          execPc, isRunning, stopCalled, cycles, failures,
          pc, now, permanentDir, written, outputPath, validationOf,
          scanIssuesOf>>

(***************************************************************************)
(* Bounds                                                                   *)
(***************************************************************************)
MaxCellLen == 5
MaxDataRows == 4
MaxFolders == 3
MaxMatchRows == 2
MaxMatchFolders == 2
MaxRematchRows == 2
MaxHeaderRows == 5
MaxOps == 2
MaxIndexRows == 3
MaxOrderOps == 3
MaxCycles == 4
MaxRunRows == 1
MaxRunFolders == 2
MaxNow == 1000
TickMs == 500

(***************************************************************************)
(* JavaScript values                                                        *)
(***************************************************************************)
Null == "null"

\* characters String.prototype.trim and the regex class \s remove / match
WhiteSpace == {" ", "\n"}

\* characters the regex atom . does not match
LineTerminator == {"\n"}

\* the regex class [A-Z], cut down to two letters
CapitalLetter == {"A", "B"}

\* the separators of /[,;]/
Separator == {",", ";"}

\* alphabet of the texts handed to parseWorkHistory
CellAlphabet == {"A", "b", ":", " ", "\n", ",", ";"}

RECURSIVE TrimStart(_)
TrimStart(s) ==
  IF s = <<>> THEN <<>>
  ELSE IF Head(s) \in WhiteSpace THEN TrimStart(Tail(s)) ELSE s

RECURSIVE TrimEnd(_)
TrimEnd(s) ==
  IF s = <<>> THEN <<>>
  ELSE IF s[Len(s)] \in WhiteSpace THEN TrimEnd(SubSeq(s, 1, Len(s) - 1)) ELSE s

Trim(s) == TrimEnd(TrimStart(s))

RECURSIVE SplitFrom(_, _)
SplitFrom(s, cur) ==
  IF s = <<>> THEN <<cur>>
  ELSE IF Head(s) \in Separator
       THEN <<cur>> \o SplitFrom(Tail(s), <<>>)
       ELSE SplitFrom(Tail(s), Append(cur, Head(s)))

Split(s) == SplitFrom(s, <<>>)

RECURSIVE LeadingWhiteSpace(_)
LeadingWhiteSpace(s) ==
  IF s = <<>> THEN 0
  ELSE IF Head(s) \in WhiteSpace THEN 1 + LeadingWhiteSpace(Tail(s)) ELSE 0

SetMax(S) == CHOOSE x \in S : \A y \in S : y <= x

(***************************************************************************)
(* ExcelProcessor.parseWorkHistory                                          *)
(***************************************************************************)
NoMatch == [matched |-> FALSE, projectCode |-> Null, workOrder |-> <<>>]

\* part.match(/^([A-Z]):\s*(.+)$/): \s* is greedy and gives characters back
\* until (.+) reaches the end of the text without crossing a line terminator
MatchProject(part) ==
  IF Len(part) < 3 \/ part[1] \notin CapitalLetter \/ part[2] # ":"
  THEN NoMatch
  ELSE LET rest == SubSeq(part, 3, Len(part))
           ok   == {k \in 0..LeadingWhiteSpace(rest) :
                      /\ k < Len(rest)
                      /\ \A i \in (k + 1)..Len(rest) : rest[i] \notin LineTerminator}
       IN  IF ok = {} THEN NoMatch
           ELSE [matched |-> TRUE, projectCode |-> part[1],
                 workOrder |-> SubSeq(rest, SetMax(ok) + 1, Len(rest))]

ParsePartDropUnmatched(part) ==
  LET m == MatchProject(part)
  IN  IF m.matched
      THEN <<[projectCode |-> m.projectCode, workOrder |-> Trim(m.workOrder),
              fullEntry |-> part]>>
      ELSE <<>>

\* the body of the loop over the parts
ParsePart(part) ==
  LET m == MatchProject(part)
  IN  IF m.matched
      THEN <<[projectCode |-> m.projectCode, workOrder |-> Trim(m.workOrder),
              fullEntry |-> part]>>
      ELSE IF Len(part) > 0
           THEN <<[projectCode |-> Null, workOrder |-> part, fullEntry |-> part]>>
           ELSE <<>>

RECURSIVE ParseParts(_)
ParseParts(parts) ==
  IF parts = <<>> THEN <<>>
  ELSE ParsePart(Trim(Head(parts))) \o ParseParts(Tail(parts))

parseWorkHistory(workHistory) == ParseParts(Split(workHistory))

(***************************************************************************)
(* Cells of the worksheet: sheet_to_json yields a text or a number          *)
(***************************************************************************)
Str(chars) == [isNum |-> FALSE, text |-> chars, num |-> 0]

Num(n) == [isNum |-> TRUE, text |-> <<>>, num |-> n]

DigitChar == <<"0", "1", "2", "3", "4", "5", "6", "7", "8", "9">>

RECURSIVE NumberToString(_)
NumberToString(n) ==
  IF n < 10 THEN <<DigitChar[n + 1]>>
  ELSE Append(NumberToString(n \div 10), DigitChar[(n % 10) + 1])

\* String(cell)
CellToString(cell) == IF cell.isNum THEN NumberToString(cell.num) ELSE cell.text

\* the truthiness of a cell value: 0 and "" are falsy
Truthy(cell) == IF cell.isNum THEN cell.num # 0 ELSE cell.text # <<>>

\* row[col], undefined (falsy) past the end of the row
CellAt(row, col) == IF col + 1 <= Len(row) THEN row[col + 1] ELSE Str(<<>>)

\* String(row[col] || "").trim()
CellText(row, col) ==
  IF Truthy(CellAt(row, col)) THEN Trim(CellToString(CellAt(row, col))) ELSE <<>>

(***************************************************************************)
(* ExcelProcessor.findHeaderRow: both exits return the fixed layout         *)
(***************************************************************************)
\* Text is a sequence of characters; the accented letters of the Hungarian
\* keywords are written a' e' i' o' u: o~, each one character.
UpperCaseLetters ==
  <<"A", "B", "C", "D", "E", "F", "G", "H", "I", "J", "K", "L", "M", "N", "O", "P", "Q", "R", "S", "T", "U", "V", "W", "X", "Y", "Z">>

LowerCaseLetters ==
  <<"a", "b", "c", "d", "e", "f", "g", "h", "i", "j", "k", "l", "m", "n", "o", "p", "q", "r", "s", "t", "u", "v", "w", "x", "y", "z">>

LowerChar(c) ==
  IF \E k \in 1..26 : UpperCaseLetters[k] = c
  THEN LowerCaseLetters[CHOOSE k \in 1..26 : UpperCaseLetters[k] = c]
  ELSE c

LowerText(s) == [k \in 1..Len(s) |-> LowerChar(s[k])]

\* value.includes(pattern)
Includes(value, pattern) ==
  \E k \in 0..(Len(value) - Len(pattern)) :
    SubSeq(value, k + 1, k + Len(pattern)) = pattern

\* one row of the matrix of editDistance: matrix[i][0..Len(str1)], from the
\* row above it
RECURSIVE MatrixRow(_, _, _, _, _)
MatrixRow(above, i, c, str1, row) ==
  IF Len(row) = Len(str1) + 1 THEN row
  ELSE LET j    == Len(row)
           cell == IF c = str1[j] THEN above[j]
                   ELSE LET a == above[j] + 1
                            b == row[j] + 1
                            d == above[j + 1] + 1
                            m == IF a <= b THEN a ELSE b
                        IN  IF m <= d THEN m ELSE d
       IN  MatrixRow(above, i, c, str1, Append(row, cell))

RECURSIVE MatrixRows(_, _, _, _)
MatrixRows(above, i, str1, str2) ==
  IF i > Len(str2) THEN above
  ELSE MatrixRows(MatrixRow(above, i, str2[i], str1, <<i>>), i + 1, str1, str2)

editDistance(str1, str2) ==
  MatrixRows([j \in 1..(Len(str1) + 1) |-> j - 1], 1, str1, str2)[Len(str1) + 1]

\* similarity(value, pattern) > 0.7, as a comparison of whole numbers
SimilarityAbove07(str1, str2) ==
  LET longer  == IF Len(str1) > Len(str2) THEN str1 ELSE str2
      shorter == IF Len(str1) > Len(str2) THEN str2 ELSE str1
  IN  IF Len(longer) = 0 THEN TRUE
      ELSE 10 * (Len(longer) - editDistance(longer, shorter)) > 7 * Len(longer)

matchesAny(value, patterns) ==
  \E pattern \in patterns :
    \/ Includes(value, pattern)
    \/ Includes(pattern, value)
    \/ SimilarityAbove07(value, pattern)

\* the keyword lists of findHeaderRow, in the order of its else-if chain
PlateNumberWords ==
  {<<"k", "e'", "s", "z", "u:", "l", "e'", "k">>,
   <<"s", "z", "a'", "m">>,
   <<"n", "u", "m", "b", "e", "r">>,
   <<"e", "q", "u", "i", "p", "m", "e", "n", "t">>}

\* workHistory
WorkHistoryWords ==
  {<<"p", "r", "o", "j", "e", "k", "t">>,
   <<"p", "r", "o", "j", "e", "c", "t">>,
   <<"w", "o", "r", "k">>}

\* shelfNumber
ShelfNumberWords ==
  {<<"r", "a", "k", "t", "a'", "r">>,
   <<"p", "o", "l", "c">>,
   <<"s", "h", "e", "l", "f">>,
   <<"s", "t", "o", "r", "a", "g", "e">>}

\* boxSize
BoxSizeWords ==
  {<<"k", "e'", "p">>,
   <<"i", "m", "a", "g", "e">>,
   <<"b", "o", "x">>,
   <<"s", "i", "z", "e">>,
   <<"m", "e'", "r", "e", "t">>}

\* shelf (legacy)
ShelfWords ==
  {<<"p", "o", "l", "c">>,
   <<"s", "h", "e", "l", "f">>,
   <<"h", "e", "l", "y">>,
   <<"l", "o", "c", "a", "t", "i", "o", "n">>,
   <<"p", "o", "z", "i'", "c", "i", "o'">>}

\* previewImage (legacy)
PreviewImageWords ==
  {<<"k", "e'", "p">>,
   <<"i", "m", "a", "g", "e">>,
   <<"p", "r", "e", "v", "i", "e", "w">>,
   <<"e", "l", "o~", "n", "e'", "z", "e", "t">>}

\* id (legacy)
IdWords ==
  {<<"i", "d">>,
   <<"a", "z", "o", "n", "o", "s", "i'", "t", "o'">>,
   <<"s", "o", "r", "s", "z", "a'", "m">>}

NoField == "none"

\* the field a header cell is mapped to: the first branch of the chain whose
\* keywords match
FieldOf(cellValue) ==
  IF matchesAny(cellValue, PlateNumberWords) THEN "plateNumber"
  ELSE IF matchesAny(cellValue, WorkHistoryWords) THEN "workHistory"
  ELSE IF matchesAny(cellValue, ShelfNumberWords) THEN "shelfNumber"
  ELSE IF matchesAny(cellValue, BoxSizeWords) THEN "boxSize"
  ELSE IF matchesAny(cellValue, ShelfWords) THEN "shelf"
  ELSE IF matchesAny(cellValue, PreviewImageWords) THEN "previewImage"
  ELSE IF matchesAny(cellValue, IdWords) THEN "id"
  ELSE NoField

\* String(row[colIndex]).toLowerCase().trim()
HeaderCellValue(row, colIndex) == Trim(LowerText(CellToString(row[colIndex + 1])))

matchCount(row) ==
  Cardinality({colIndex \in 0..(Len(row) - 1) :
                 FieldOf(HeaderCellValue(row, colIndex)) # NoField})

NoColumn == -1

\* the columnMap built from a row: each field at the last column mapped to it
DetectedColumnMap(row) ==
  [field \in {"plateNumber", "workHistory", "shelfNumber", "previewImage",
              "boxSize"} |->
     LET cols == {colIndex \in 0..(Len(row) - 1) :
                    FieldOf(HeaderCellValue(row, colIndex)) = field}
     IN  IF cols = {} THEN NoColumn ELSE SetMax(cols)]

NoRow == -1

\* the loop over the first five rows from rowIndex on: the first row with at
\* least two matching cells, NoRow when the loop runs out
RECURSIVE HeaderRowFrom(_, _)
HeaderRowFrom(data, rowIndex) ==
  IF rowIndex >= (IF Len(data) < 5 THEN Len(data) ELSE 5) THEN NoRow
  ELSE IF Len(data[rowIndex + 1]) # 0 /\ matchCount(data[rowIndex + 1]) >= 2
  THEN rowIndex
  ELSE HeaderRowFrom(data, rowIndex + 1)

CorrectColumnMap ==
  [plateNumber |-> 0, workHistory |-> 1, shelfNumber |-> 2, previewImage |-> 3,
   boxSize |-> 4]

OverrideKeepsDetected(detected) ==
  [field \in DOMAIN CorrectColumnMap |->
     IF detected[field] # NoColumn THEN detected[field]
     ELSE CorrectColumnMap[field]]

\* the override: the detected mapping is logged and dropped
Override(detected) == CorrectColumnMap

findHeaderRow(data) ==
  LET rowIndex == HeaderRowFrom(data, 0)
  IN
  IF rowIndex # NoRow
  THEN [rowIndex  |-> 2,
        columnMap |-> Override(DetectedColumnMap(data[rowIndex + 1]))]
  ELSE [rowIndex  |-> 2,
        columnMap |-> [plateNumber |-> 0, workHistory |-> 1, shelfNumber |-> 2,
                       previewImage |-> 3, boxSize |-> 4, shelf |-> 2]]

(***************************************************************************)
(* ExcelProcessor.hasRedBackground, isRedColor, isManuallyLocked            *)
(***************************************************************************)
Undefined == "undefined"

\* a property that an object does not have
Absent == "absent"

\* a colour object {rgb, theme, indexed}; theme and indexed are numbers,
\* written as their numerals. A colour that is absent and a colour object
\* without any of the three lead hasRedBackground to the same result and are
\* both written NoColor.
NoColor == [rgb |-> Undefined, theme |-> Undefined, indexed |-> Undefined]

Rgb(value) == [NoColor EXCEPT !.rgb = value]

Theme(value) == [NoColor EXCEPT !.theme = value]

Indexed(value) == [NoColor EXCEPT !.indexed = value]

\* values that are falsy in JavaScript: undefined, "" and the number 0
Falsy == {Undefined, "", "0"}

\* color.rgb || color.theme || color.indexed
ColorValue(color) ==
  IF color.rgb \notin Falsy THEN color.rgb
  ELSE IF color.theme \notin Falsy THEN color.theme
  ELSE color.indexed

NoStyle == [fill |-> [patternType |-> Undefined, fgColor |-> NoColor,
                      bgColor |-> NoColor],
            bgColor |-> NoColor, present |-> FALSE]

\* colour values (rgb text, theme or indexed number) that isRedColor accepts:
\* the ones that contain a red hex pattern once upper-cased, the red indexes
\* "9" "10" "53" and the red theme "2"
RedColorValues ==
  {"FFFF0000", "ffff0000", "FF0000", "FFC00000", "FFFF9999", "FFE6B8B8",
   "FFFFC0C0", "FFFF8080", "FFFF4040", "FFCC0000", "9", "10", "53", "2"}

isRedColor(colorValue) ==
  IF colorValue \in Falsy THEN FALSE ELSE colorValue \in RedColorValues

hasRedBackground(styles, row, col) ==
  IF row < 1 \/ row > Len(styles) \/ col # 0 THEN FALSE
  ELSE LET style == styles[row]
       IN  IF ~style.present THEN FALSE
           ELSE \/ /\ style.fill.patternType = "solid"
                   /\ isRedColor(ColorValue(style.fill.fgColor))
                \/ isRedColor(ColorValue(style.fill.bgColor))
                \/ isRedColor(ColorValue(style.bgColor))

manuallyLockedPlates ==
  {<<"1", "3">>, <<"1", "5">>, <<"1", "7">>, <<"2", "1">>, <<"2", "3">>,
   <<"2", "5">>, <<"2", "7">>, <<"2", "9">>, <<"3", "1">>, <<"3", "3">>,
   <<"3", "5">>, <<"3", "7">>}

isManuallyLocked(plateNumber) == plateNumber \in manuallyLockedPlates

(***************************************************************************)
(* ExcelProcessor.groupRowsByMergedPlates                                   *)
(***************************************************************************)
Unknown == <<"U", "n", "k", "n", "o", "w", "n">>

\* row.every((cell) => !cell || String(cell).trim() === "")
IsBlankRowNever(row) == FALSE

IsBlankRow(row) ==
  \/ Len(row) = 0
  \/ \A c \in 1..Len(row) : ~Truthy(row[c]) \/ Trim(CellToString(row[c])) = <<>>

\* the work-history cell of a row added to a plate
AddWorkHistory(plate, workHistory) ==
  IF workHistory # <<>>
  THEN [plate EXCEPT !.workHistory = Append(@, workHistory),
                     !.workProjects = @ \o parseWorkHistory(workHistory)]
  ELSE plate

\* a row with a plate number starts a new plate
StartPlate(row, columnMap, isLocked, rowIndex, sheetName) ==
  AddWorkHistory(
    [plateNumber  |-> CellText(row, columnMap.plateNumber),
     workHistory  |-> <<>>,
     workProjects |-> <<>>,
     shelfNumber  |-> IF CellText(row, columnMap.shelfNumber) # <<>>
                      THEN CellText(row, columnMap.shelfNumber) ELSE Unknown,
     boxSize      |-> IF CellText(row, columnMap.boxSize) # <<>>
                      THEN CellText(row, columnMap.boxSize) ELSE Unknown,
     previewImage |-> CellText(row, columnMap.previewImage),
     isLocked     |-> isLocked,
     source       |-> [worksheet |-> sheetName, rows |-> <<rowIndex>>]],
    CellText(row, columnMap.workHistory))

BackfillShelfLastWins(plate, shelfNumber) ==
  IF shelfNumber # <<>> THEN [plate EXCEPT !.shelfNumber = shelfNumber] ELSE plate

\* "Update other fields if they're not set and we have data": the shelf
BackfillShelf(plate, shelfNumber) ==
  IF /\ (plate.shelfNumber = <<>> \/ plate.shelfNumber = Unknown)
     /\ shelfNumber # <<>>
  THEN [plate EXCEPT !.shelfNumber = shelfNumber]
  ELSE plate

\* and the preview image
BackfillImage(plate, previewImage) ==
  IF plate.previewImage = <<>> /\ previewImage # <<>>
  THEN [plate EXCEPT !.previewImage = previewImage]
  ELSE plate

ContinuePlateNoHistory(plate, row, columnMap, rowIndex) ==
  [plate EXCEPT !.source.rows = Append(@, rowIndex)]

\* a row without a plate number is added to the current plate
ContinuePlate(plate, row, columnMap, rowIndex) ==
  LET p1 == [plate EXCEPT !.source.rows = Append(@, rowIndex)]
      p2 == AddWorkHistory(p1, CellText(row, columnMap.workHistory))
  IN  BackfillImage(BackfillShelf(p2, CellText(row, columnMap.shelfNumber)),
                    CellText(row, columnMap.previewImage))

\* one pass of the loop over dataRows; current is <<>> or <<the current plate>>
GroupRow(st, row, columnMap, styles, sheetName) ==
  LET rowIndex    == st.currentRowIndex + 1
      plateNumber == CellText(row, columnMap.plateNumber)
      isLocked    == IF plateNumber # <<>>
                     THEN \/ hasRedBackground(styles, rowIndex, columnMap.plateNumber)
                          \/ isManuallyLocked(plateNumber)
                     ELSE FALSE
  IN  IF IsBlankRow(row)
      THEN [st EXCEPT !.currentRowIndex = rowIndex]
      ELSE IF plateNumber # <<>>
      THEN [plates          |-> st.plates \o st.current,
            current         |-> <<StartPlate(row, columnMap, isLocked, rowIndex,
                                             sheetName)>>,
            currentRowIndex |-> rowIndex]
      ELSE IF st.current # <<>>
      THEN [plates          |-> st.plates,
            current         |-> <<ContinuePlate(st.current[1], row, columnMap,
                                                rowIndex)>>,
            currentRowIndex |-> rowIndex]
      ELSE [st EXCEPT !.currentRowIndex = rowIndex]

RECURSIVE GroupRows(_, _, _, _, _)
GroupRows(st, rows, columnMap, styles, sheetName) ==
  IF rows = <<>> THEN st
  ELSE GroupRows(GroupRow(st, Head(rows), columnMap, styles, sheetName),
                 Tail(rows), columnMap, styles, sheetName)

RECURSIVE Join(_, _)
Join(parts, sep) ==
  IF parts = <<>> THEN <<>>
  ELSE IF Len(parts) = 1 THEN parts[1]
  ELSE parts[1] \o sep \o Join(Tail(parts), sep)

\* the last loop: the combined work history and the row statistics
SealPlate(plate) ==
  [plateNumber         |-> plate.plateNumber,
   workHistory         |-> plate.workHistory,
   workProjects        |-> plate.workProjects,
   shelfNumber         |-> plate.shelfNumber,
   boxSize             |-> plate.boxSize,
   previewImage        |-> plate.previewImage,
   isLocked            |-> plate.isLocked,
   workHistoryCombined |-> Join(plate.workHistory, <<";", " ">>),
   source              |-> [worksheet |-> plate.source.worksheet,
                            rows      |-> plate.source.rows,
                            rowCount  |-> Len(plate.source.rows),
                            firstRow  |-> plate.source.rows[1],
                            lastRow   |-> plate.source.rows[Len(plate.source.rows)]]]

LastPlateForgotten(st) == st.plates

\* "Don't forget the last plate"
LastPlatePushed(st) == st.plates \o st.current

groupRowsByMergedPlates(dataRows, columnMap, styles, sheetName) ==
  LET st     == GroupRows([plates |-> <<>>, current |-> <<>>, currentRowIndex |-> 2],
                          dataRows, columnMap, styles, sheetName)
      plates == LastPlatePushed(st)
  IN  [i \in 1..Len(plates) |-> SealPlate(plates[i])]

(***************************************************************************)
(* ExcelProcessor.processWorksheet                                          *)
(***************************************************************************)
\* jsonData.slice(headerInfo.rowIndex + 1)
DataRowsOf(data) == SubSeq(data, findHeaderRow(data).rowIndex + 2, Len(data))

processWorksheet(data, styles, sheetName) ==
  IF Len(data) = 0 THEN <<>>
  ELSE groupRowsByMergedPlates(DataRowsOf(data), findHeaderRow(data).columnMap,
                               styles, sheetName)

(***************************************************************************)
(* Directory listings: a file is a base name and an extension as written    *)
(***************************************************************************)
File(base, ext) == [base |-> base, ext |-> ext]

\* path.extname(file)
Extname(file) == file.ext

\* String.prototype.toLowerCase on the extensions that occur
ToLowerCase(s) ==
  CASE s = ".STEP" -> ".step"
    [] s = ".PNG"  -> ".png"
    [] OTHER       -> s

(***************************************************************************)
(* ModelFolderValidator                                                     *)
(***************************************************************************)
modelExtensions == {".x_t", ".step", ".stp", ".iges", ".igs", ".dwg", ".psmodel"}

imageExtensions == {".png", ".jpg", ".jpeg"}

RECURSIVE FilesWithExtension(_, _)
FilesWithExtension(files, extensions) ==
  IF files = <<>> THEN <<>>
  ELSE (IF ToLowerCase(Extname(Head(files))) \in extensions
        THEN <<Head(files)>> ELSE <<>>)
       \o FilesWithExtension(Tail(files), extensions)

FolderIsValidAtLeastOneModel(modelCount, imageCount) ==
  modelCount >= 1 /\ imageCount = 1

\* valid: modelCount === 1 && imageCount === 1
FolderIsValid(modelCount, imageCount) == modelCount = 1 /\ imageCount = 1

validateSingleFolder(files) ==
  LET modelFiles == FilesWithExtension(files, modelExtensions)
      imageFiles == FilesWithExtension(files, imageExtensions)
      modelCount == Len(modelFiles)
      imageCount == Len(imageFiles)
  IN  [valid      |-> FolderIsValid(modelCount, imageCount),
       modelCount |-> modelCount,
       imageCount |-> imageCount,
       modelFiles |-> modelFiles,
       imageFiles |-> imageFiles,
       problems   |->
         (IF modelCount = 0 THEN <<"No model file found">>
          ELSE IF modelCount > 1 THEN <<"Multiple model files found">>
          ELSE <<>>)
         \o
         (IF imageCount = 0 THEN <<"No preview image found">>
          ELSE IF imageCount > 1 THEN <<"Multiple images found">>
          ELSE <<>>)]

IsDirectory(entry) == entry.isDirectory

\* the loop over the folders: the issues and the count of valid folders
RECURSIVE ValidateFolders(_, _)
ValidateFolders(folders, acc) ==
  IF folders = <<>> THEN acc
  ELSE LET result == validateSingleFolder(Head(folders).files)
       IN  ValidateFolders(Tail(folders),
             IF ~result.valid
             THEN [acc EXCEPT !.issues =
                     Append(@, [folder     |-> Head(folders).name,
                                modelCount |-> result.modelCount,
                                imageCount |-> result.imageCount,
                                problems   |-> result.problems])]
             ELSE [acc EXCEPT !.validCount = @ + 1])

ValidationThrew ==
  [threw |-> TRUE, valid |-> FALSE, totalFolders |-> 0, validFolders |-> 0,
   invalidFolders |-> 0, issues |-> <<>>]

\* dir: the directory at modelsRootPath; when it or one of its folders cannot
\* be listed, readdir throws and the catch rethrows "Validation failed"
validateModelFolders(dir) ==
  LET folders == SelectSeq(dir.entries, IsDirectory)
      acc     == ValidateFolders(folders, [issues |-> <<>>, validCount |-> 0])
  IN  IF ~dir.readable \/ \E i \in 1..Len(folders) : ~folders[i].readable
      THEN ValidationThrew
      ELSE [threw          |-> FALSE,
            valid          |-> ~(Len(acc.issues) > 0),
            totalFolders   |-> Len(folders),
            validFolders   |-> acc.validCount,
            invalidFolders |-> Len(acc.issues),
            issues         |-> acc.issues]

(***************************************************************************)
(* convert_excel_to_json.scanModelFiles                                     *)
(***************************************************************************)
modelFormats == {".x_t", ".step", ".stp", ".iges", ".igs", ".dwg"}

imageFormats == {".jpg", ".jpeg", ".png", ".bmp", ".gif"}

\* `${folder}/${file}`
RelativePath(folder, file) == <<folder, "/", file>>

RECURSIVE ScanFiles(_, _)
ScanFiles(folder, files) ==
  IF files = <<>> THEN <<>>
  ELSE (IF ToLowerCase(Extname(Head(files))) \in modelFormats
        THEN <<[folder       |-> folder,
                fileName     |-> Head(files),
                relativePath |-> RelativePath(folder, Head(files))]>>
        ELSE <<>>)
       \o ScanFiles(folder, Tail(files))

\* the issues of one folder: at most one about models, one about images
FolderIssues(folder, files) ==
  LET models == FilesWithExtension(files, modelFormats)
      images == FilesWithExtension(files, imageFormats \ modelFormats)
  IN  (IF Len(models) = 0 THEN <<[type |-> "MISSING_MODEL", folder |-> folder]>>
       ELSE IF Len(models) > 1
       THEN <<[type |-> "MULTIPLE_MODELS", folder |-> folder]>>
       ELSE <<>>)
      \o
      (IF Len(images) = 0 THEN <<[type |-> "MISSING_IMAGE", folder |-> folder]>>
       ELSE IF Len(images) > 1
       THEN <<[type |-> "MULTIPLE_IMAGES", folder |-> folder]>>
       ELSE <<>>)

RECURSIVE ScanFolders(_)
ScanFolders(entries) ==
  IF entries = <<>> THEN [modelFiles |-> <<>>, validationIssues |-> <<>>]
  ELSE LET rest == ScanFolders(Tail(entries))
           e    == Head(entries)
       IN  IF e.isDirectory
           THEN [modelFiles       |-> ScanFiles(e.name, e.files) \o rest.modelFiles,
                 validationIssues |-> FolderIssues(e.name, e.files)
                                        \o rest.validationIssues]
           ELSE rest

\* any error of readdir or stat ends in the catch, which returns no files and
\* no issues
scanModelFiles(dir) ==
  IF \/ ~dir.exists
     \/ ~dir.readable
     \/ \E i \in 1..Len(dir.entries) :
          dir.entries[i].isDirectory /\ ~dir.entries[i].readable
  THEN [modelFiles |-> <<>>, validationIssues |-> <<>>]
  ELSE ScanFolders(dir.entries)

(***************************************************************************)
(* ImageExtractor.extractImages                                             *)
(***************************************************************************)
PlaceholderCount == 38

NoRange == -1

\* Math.ceil(a / b) for b > 0
CeilDiv(a, b) == IF a <= 0 THEN -((-a) \div b) ELSE (a + b - 1) \div b

Min(a, b) == IF a <= b THEN a ELSE b

Max(a, b) == IF a >= b THEN a ELSE b

determinePlateNumber(imageInfo, imageCounter) ==
  IF imageInfo.row # NoRange
  THEN Max(1, Min(PlaceholderCount, CeilDiv(imageInfo.row - 2, 15)))
  ELSE Min(imageCounter, PlaceholderCount)

getImageExtension(extension) ==
  CASE extension \in {"jpg", "jpeg"} -> "jpg"
    [] extension = "png" -> "png"
    [] extension = "gif" -> "gif"
    [] extension = "bmp" -> "bmp"
    [] OTHER -> "png"

\* `plate_${imageCounter}_preview.${extension}` in the previews directory
PreviewPath(imageCounter, extension) ==
  <<"previews/", "plate_">> \o NumberToString(imageCounter)
    \o <<"_preview.", extension>>

\* `plate_${i}_preview_placeholder.png` in the previews directory
PlaceholderPath(i) ==
  <<"previews/", "plate_">> \o NumberToString(i) \o <<"_preview_placeholder.png">>

\* the loop over the images: imageMap as a set of <<key, name>> pairs in the
\* order of assignment, and the files written
RECURSIVE ExtractFrom(_, _, _)
ExtractFrom(images, imageCounter, acc) ==
  IF images = <<>> THEN acc
  ELSE LET counter == imageCounter + 1
           info    == Head(images)
           name    == PreviewPath(counter, getImageExtension(info.extension))
           key     == NumberToString(determinePlateNumber(info, counter))
       IN  ExtractFrom(Tail(images), counter,
             IF info.hasBuffer
             THEN [imageMap |-> [k \in DOMAIN acc.imageMap \cup {key} |->
                                   IF k = key THEN name ELSE acc.imageMap[k]],
                   files    |-> acc.files \cup {name}]
             ELSE acc)

NoImageMap == [k \in {} |-> Null]

\* what extractImages returns and the files it has written by then; every
\* failure ends in the catch that returns {}
extractImages(book) ==
  IF ~book.exceljsReadable \/ ~book.hasWorksheet
  THEN [imageMap |-> NoImageMap, files |-> {}]
  ELSE IF Len(book.images) > 0
  THEN ExtractFrom(book.images, 0, [imageMap |-> NoImageMap, files |-> {}])
  ELSE [imageMap |-> [k \in {NumberToString(i) : i \in 1..PlaceholderCount} |->
                        PlaceholderPath(
                          CHOOSE i \in 1..PlaceholderCount : NumberToString(i) = k)],
        files    |-> {PlaceholderPath(i) : i \in 1..PlaceholderCount}]

(***************************************************************************)
(* convert_excel_to_json.matchPlatesWithModels                              *)
(***************************************************************************)
DeriveHealthUsedFirst(plateData1) ==
  IF Len(plateData1.workHistory) > 0 THEN "used"
  ELSE IF plateData1.isLocked THEN "locked" ELSE "new"

DeriveHealth(plateData1) ==
  IF plateData1.isLocked THEN "locked"
  ELSE IF Len(plateData1.workHistory) > 0 THEN "used" ELSE "new"

FolderStartsWithPlateNumber(m, plateNumber) ==
  /\ Len(plateNumber) <= Len(m.folder)
  /\ SubSeq(m.folder, 1, Len(plateNumber)) = plateNumber

\* m.folder === plateNumber
FolderIsPlateNumber(m, plateNumber) == m.folder = plateNumber

RECURSIVE FilterMatches(_, _)
FilterMatches(models, plateNumber) ==
  IF models = <<>> THEN <<>>
  ELSE (IF FolderIsPlateNumber(Head(models), plateNumber)
        THEN <<Head(models)>> ELSE <<>>)
       \o FilterMatches(Tail(models), plateNumber)

NoModelStatus(plateNumber) == <<"No model folder found for plate ">> \o plateNumber

\* imageMap[plateNumber] || null
ImageOf(imageMap, plateNumber) ==
  IF plateNumber \in DOMAIN imageMap THEN imageMap[plateNumber] ELSE Null

PrimaryPathOnFirstCallOnly(matches) ==
  IF matched THEN <<Null>> ELSE matches[1].relativePath

\* matches[0].relativePath
PrimaryPath(matches) == matches[1].relativePath

MatchPlate(plateData1, models, imageMap, id) ==
  LET matches == FilterMatches(models, plateData1.plateNumber)
  IN  [id                 |-> id,
       plateNumber        |-> plateData1.plateNumber,
       workHistory        |-> plateData1.workHistoryCombined,
       workHistoryEntries |-> plateData1.workHistory,
       workProjects       |-> plateData1.workProjects,
       shelf              |-> plateData1.shelfNumber,
       shelfNumber        |-> plateData1.shelfNumber,
       boxSize            |-> plateData1.boxSize,
       isLocked           |-> plateData1.isLocked,
       health             |-> DeriveHealth(plateData1),
       occupancy          |-> "free",
       previewImage       |-> ImageOf(imageMap, plateData1.plateNumber),
       excelSource        |-> plateData1.source,
       currentModelFile   |-> IF Len(matches) > 0 THEN PrimaryPath(matches)
                              ELSE <<Null>>,
       modelFiles         |-> [k \in 1..Len(matches) |->
                                 [fileName     |-> matches[k].fileName,
                                  relativePath |-> matches[k].relativePath,
                                  isPrimary    |-> k = 1]],
       modelStatus        |-> IF Len(matches) > 0 THEN <<Undefined>>
                              ELSE NoModelStatus(plateData1.plateNumber)]

\* ids: the values generatePlateId returns, one per plate
matchPlatesWithModels(excelData, models, imageMap, ids) ==
  [i \in 1..Len(excelData) |-> MatchPlate(excelData[i], models, imageMap, ids[i])]

(***************************************************************************)
(* Specification of the tokenizer: any text up to MaxCellLen characters     *)
(***************************************************************************)
Texts(n) == UNION {[1..k -> CellAlphabet] : k \in 0..n}

ParseIdle ==
  /\ workHistoryText = <<>>
  /\ projects = <<>>
  /\ parsed = FALSE

\* headerInfo before findHeaderRow has been called
NoHeaderInfo ==
  [rowIndex |-> NoRow, columnMap |-> [field \in DOMAIN CorrectColumnMap |-> NoColumn]]

SheetIdle ==
  /\ jsonData = <<>>
  /\ cellStyles = <<>>
  /\ plateData = <<>>
  /\ processed = FALSE
  /\ headerInfo = NoHeaderInfo
  /\ sheetDataRows = <<>>

NoDirectory == [exists |-> FALSE, readable |-> FALSE, entries |-> <<>>]

ValidatorIdle ==
  /\ modelsDir = NoDirectory
  /\ validationResult = ValidationThrew
  /\ validated = FALSE

NoWorkbook ==
  [readable |-> FALSE, exceljsReadable |-> FALSE, hasWorksheet |-> FALSE,
   images |-> <<>>]

MatcherIdle ==
  /\ workbook = NoWorkbook
  /\ scanDir = NoDirectory
  /\ plateConfig = <<>>
  /\ matched = FALSE
  /\ previousConfig = <<>>
  /\ previousMatched = FALSE

NoPlates == [id \in {} |-> Null]

IndexIdle ==
  /\ document = <<>>
  /\ generated = FALSE

NoCall == [op |-> "none", plateId |-> Absent, user |-> Absent, threw |-> FALSE]

OrdersIdle ==
  /\ workOrders = NoPlates
  /\ lastOrderCall = NoCall
  /\ orderOps = 0

\* the Executor after its constructor
ExecutorIdle ==
  /\ execPc = "constructed"
  /\ isRunning = FALSE
  /\ stopCalled = FALSE
  /\ cycles = 0
  /\ failures = 0

ServiceIdle ==
  /\ platesMap = NoPlates
  /\ savedPlates = NoPlates
  /\ platesBefore = NoPlates
  /\ lastCall = NoCall
  /\ opCount = 0

StyleIdle ==
  /\ styleRow = 0
  /\ redBackground = FALSE
  /\ redChecked = FALSE

Runs == {1, 2}

NoPath == <<>>

RunIdle ==
  /\ pc = [r \in Runs |-> "idle"]
  /\ now = 0
  /\ permanentDir = [f \in {} |-> Null]
  /\ written = [r \in Runs |-> {}]
  /\ outputPath = [r \in Runs |-> NoPath]
  /\ validationOf = [r \in Runs |-> "pending"]
  /\ scanIssuesOf = [r \in Runs |-> 0]

ParseInit ==
  /\ workHistoryText \in Texts(MaxCellLen)
  /\ projects = <<>>
  /\ parsed = FALSE
  /\ SheetIdle
  /\ ValidatorIdle
  /\ MatcherIdle
  /\ RunIdle
  /\ StyleIdle
  /\ ServiceIdle
  /\ IndexIdle
  /\ OrdersIdle
  /\ ExecutorIdle

CallParseWorkHistory ==
  /\ ~parsed
  /\ projects' = parseWorkHistory(workHistoryText)
  /\ parsed' = TRUE
  /\ UNCHANGED workHistoryText
  /\ UNCHANGED <<sheetVars, validatorVars, matcherVars, runVars, styleVars>>
  /\ UNCHANGED executorVars
  /\ UNCHANGED orderVars
  /\ UNCHANGED indexVars
  /\ UNCHANGED serviceVars

ParseNext == CallParseWorkHistory

SpecParse == ParseInit /\ [][ParseNext]_vars

(***************************************************************************)
(* Specification of the row grouper: worksheets of three heading rows and   *)
(* up to MaxDataRows data rows                                              *)
(***************************************************************************)
SheetName == "Munka1"

RedSolid == [fill |-> [patternType |-> "solid", fgColor |-> Rgb("FFFF0000"),
                       bgColor |-> NoColor],
             bgColor |-> NoColor, present |-> TRUE]

Empty == Str(<<>>)

Row(plate, history, shelf, image, box, other) ==
  <<plate, history, shelf, image, box, other>>

\* the data rows a worksheet is made of, each with the style of its A cell
SheetRows ==
  { \* plate "1" with the work order "A: -100", a shelf and a box size
    [cells |-> Row(Str(<<"1">>), Str(<<"A", ":", " ", "-", "1", "0", "0">>),
                   Str(<<"S">>), Empty, Str(<<"X">>), Empty),
     style |-> NoStyle],
    \* plate "1" again, red, nothing else
    [cells |-> Row(Str(<<" ", "1">>), Empty, Empty, Empty, Empty, Empty),
     style |-> RedSolid],
    \* plate 2 as a number
    [cells |-> Row(Num(2), Str(<<"b", ";", "A", ":", "b">>), Empty, Empty, Empty,
                   Empty),
     style |-> NoStyle],
    \* plate 12
    [cells |-> Row(Num(12), Empty, Empty, Empty, Empty, Empty), style |-> NoStyle],
    \* plate 13, which is in the manual list of locked plates
    [cells |-> Row(Num(13), Empty, Empty, Empty, Empty, Empty), style |-> NoStyle],
    \* continuation row with a work order
    [cells |-> Row(Empty, Str(<<"B", ":", " ", "-", "1", "0", "0", "b">>), Empty,
                   Empty, Empty, Empty),
     style |-> NoStyle],
    \* continuation row with a shelf and an image only
    [cells |-> Row(Str(<<" ">>), Empty, Str(<<"T">>), Str(<<"P">>), Empty, Empty),
     style |-> NoStyle],
    \* continuation row with another shelf, another image and a box size
    [cells |-> Row(Empty, Empty, Str(<<"V">>), Str(<<"Q">>), Str(<<"Y">>), Empty),
     style |-> RedSolid],
    \* row with a number 0 in the plate column
    [cells |-> Row(Num(0), Str(<<"b">>), Empty, Empty, Empty, Empty),
     style |-> NoStyle],
    \* empty rows
    [cells |-> Row(Empty, Empty, Empty, Empty, Empty, Empty), style |-> NoStyle],
    [cells |-> Row(Str(<<" ">>), Empty, Empty, Empty, Empty, Num(0)),
     style |-> RedSolid],
    \* row with a value outside the five mapped columns only
    [cells |-> Row(Empty, Empty, Empty, Empty, Empty, Str(<<"b">>)),
     style |-> NoStyle] }

\* the three rows above the data: title, blank, headings
HeadingRows ==
  <<Row(Str(<<"K">>), Empty, Empty, Empty, Empty, Empty),
    Row(Empty, Empty, Empty, Empty, Empty, Empty),
    Row(Str(<<"s">>), Str(<<"p">>), Str(<<"r">>), Str(<<"k">>), Str(<<"m">>), Empty)>>

Worksheets(n) == UNION {[1..k -> SheetRows] : k \in 0..n}

SheetInit ==
  /\ \E rows \in Worksheets(MaxDataRows), headingStyle \in {NoStyle, RedSolid} :
       /\ jsonData = HeadingRows \o [i \in 1..Len(rows) |-> rows[i].cells]
       /\ cellStyles = <<NoStyle, NoStyle, headingStyle>>
                         \o [i \in 1..Len(rows) |-> rows[i].style]
  /\ plateData = <<>>
  /\ processed = FALSE
  /\ headerInfo = NoHeaderInfo
  /\ sheetDataRows = <<>>
  /\ ParseIdle
  /\ ValidatorIdle
  /\ MatcherIdle
  /\ RunIdle
  /\ StyleIdle
  /\ ServiceIdle
  /\ IndexIdle
  /\ OrdersIdle
  /\ ExecutorIdle

CallProcessWorksheet ==
  /\ ~processed
  /\ plateData' = plateData \o processWorksheet(jsonData, cellStyles, SheetName)
  /\ headerInfo' = IF Len(jsonData) = 0 THEN headerInfo
                   ELSE findHeaderRow(jsonData)
  /\ sheetDataRows' = IF Len(jsonData) = 0 THEN sheetDataRows ELSE DataRowsOf(jsonData)
  /\ processed' = TRUE
  /\ UNCHANGED <<jsonData, cellStyles>>
  /\ UNCHANGED <<parseVars, validatorVars, matcherVars, runVars, styleVars>>
  /\ UNCHANGED executorVars
  /\ UNCHANGED orderVars
  /\ UNCHANGED indexVars
  /\ UNCHANGED serviceVars

SheetNext == CallProcessWorksheet

SpecSheet == SheetInit /\ [][SheetNext]_vars

(***************************************************************************)
(* Specification of the header search: worksheets of three columns and up   *)
(* to MaxHeaderRows rows, with heading rows at any place                    *)
(***************************************************************************)
Filler == Str(<<"q", "q">>)

Projekt == Str(<<"P", "r", "o", "j", "e", "k", "t">>)

Szam == Str(<<"S", "z", "a'", "m">>)

Polc == Str(<<"P", "o", "l", "c">>)

HeaderSheetRows ==
  { \* a row with one heading only
    <<Filler, Projekt, Filler>>,
    \* the headings in the order of the fixed layout
    <<Szam, Projekt, Polc>>,
    \* the headings with plate number and project swapped
    <<Projekt, Szam, Polc>>,
    \* a data row with two empty cells
    <<Num(7), Empty, Empty>> }

HeaderInit ==
  /\ jsonData \in UNION {[1..k -> HeaderSheetRows] : k \in 0..MaxHeaderRows}
  /\ cellStyles = [i \in 1..Len(jsonData) |-> NoStyle]
  /\ plateData = <<>>
  /\ processed = FALSE
  /\ headerInfo = NoHeaderInfo
  /\ sheetDataRows = <<>>
  /\ ParseIdle
  /\ ValidatorIdle
  /\ MatcherIdle
  /\ RunIdle
  /\ StyleIdle
  /\ ServiceIdle
  /\ IndexIdle
  /\ OrdersIdle
  /\ ExecutorIdle

SpecHeader == HeaderInit /\ [][SheetNext]_vars

(***************************************************************************)
(* Specification of the validator: a models directory of up to MaxFolders   *)
(* entries                                                                  *)
(***************************************************************************)
\* file listings of a plate folder
FolderListings ==
  { <<File("a", ".step"), File("a", ".png")>>,
    <<File("a", ".STEP"), File("a", ".PNG"), File("r", ".txt")>>,
    <<File("a", ".png")>>,
    <<File("a", ".step")>>,
    <<File("a", ".step"), File("b", ".step"), File("a", ".png")>>,
    <<File("a", ".x_t"), File("a", ".png"), File("b", ".jpg")>>,
    <<File("a", ".psmodel"), File("a", ".png")>>,
    <<File("a", ".step"), File("a", ".gif")>>,
    <<File("a", ".step"), File("a", ".png"), File("b", ".bmp")>>,
    <<>> }

\* the names of the entries of a directory, by position
EntryNames == <<<<"1", "2", "A">>, <<"1">>, <<"2">>, <<"7">>, <<"1", "2">>>>

\* an entry is a folder with its listing, a folder that cannot be listed, or
\* a plain file
EntryKinds ==
  [isDirectory : {TRUE}, readable : {TRUE}, files : FolderListings, ext : {""}]
  \cup {[isDirectory |-> TRUE, readable |-> FALSE, files |-> <<>>, ext |-> ""],
        [isDirectory |-> FALSE, readable |-> TRUE, files |-> <<>>, ext |-> ".step"]}

Named(kinds) ==
  [i \in 1..Len(kinds) |->
     [name |-> EntryNames[i], isDirectory |-> kinds[i].isDirectory,
      readable |-> kinds[i].readable, files |-> kinds[i].files,
      ext |-> kinds[i].ext]]

Listings(n) == {Named(kinds) : kinds \in UNION {[1..k -> EntryKinds] : k \in 0..n}}

Directories(n) ==
  [exists : {TRUE}, readable : {TRUE}, entries : Listings(n)]
  \cup {[exists |-> TRUE, readable |-> FALSE, entries |-> <<>>]}

ValidatorInit ==
  /\ modelsDir \in Directories(MaxFolders)
  /\ validationResult = ValidationThrew
  /\ validated = FALSE
  /\ ParseIdle
  /\ SheetIdle
  /\ MatcherIdle
  /\ RunIdle
  /\ StyleIdle
  /\ ServiceIdle
  /\ IndexIdle
  /\ OrdersIdle
  /\ ExecutorIdle

CallValidateModelFolders ==
  /\ ~validated
  /\ validationResult' = validateModelFolders(modelsDir)
  /\ validated' = TRUE
  /\ UNCHANGED modelsDir
  /\ UNCHANGED <<parseVars, sheetVars, matcherVars, runVars, styleVars>>
  /\ UNCHANGED executorVars
  /\ UNCHANGED orderVars
  /\ UNCHANGED indexVars
  /\ UNCHANGED serviceVars

ValidatorNext == CallValidateModelFolders

SpecValidator == ValidatorInit /\ [][ValidatorNext]_vars

(***************************************************************************)
(* Specification of the matcher: the plates of a worksheet of up to         *)
(* MaxMatchRows data rows against the models of a directory of up to        *)
(* MaxMatchFolders entries                                                  *)
(***************************************************************************)
PlateIds == {"PL-000001-aaaaaa", "PL-000001-bbbbbb"}

Image(hasBuffer, extension, row) ==
  [hasBuffer |-> hasBuffer, extension |-> extension, row |-> row]

\* workbooks that can be read: without images, and with two images of which
\* the second is anchored at row 17
Workbooks ==
  { [readable |-> TRUE, exceljsReadable |-> TRUE, hasWorksheet |-> TRUE,
     images |-> <<>>],
    [readable |-> TRUE, exceljsReadable |-> TRUE, hasWorksheet |-> TRUE,
     images |-> <<Image(TRUE, "jpeg", NoRange), Image(TRUE, "emf", 17)>>],
    [readable |-> TRUE, exceljsReadable |-> FALSE, hasWorksheet |-> FALSE,
     images |-> <<>>] }

MatchEntryKinds ==
  { [isDirectory |-> TRUE, readable |-> TRUE, ext |-> "",
     files |-> <<File("a", ".step"), File("a", ".png")>>],
    [isDirectory |-> TRUE, readable |-> TRUE, ext |-> "",
     files |-> <<File("a", ".step"), File("b", ".step"), File("a", ".png")>>],
    [isDirectory |-> TRUE, readable |-> TRUE, ext |-> "",
     files |-> <<File("a", ".png")>>],
    [isDirectory |-> FALSE, readable |-> TRUE, ext |-> ".step", files |-> <<>>] }

MatchDirectories(n) ==
  [exists : {TRUE}, readable : {TRUE},
   entries : {Named(kinds) : kinds \in UNION {[1..k -> MatchEntryKinds] : k \in 0..n}}]

MatcherInit ==
  /\ \E rows \in Worksheets(MaxMatchRows), headingStyle \in {NoStyle, RedSolid} :
       /\ jsonData = HeadingRows \o [i \in 1..Len(rows) |-> rows[i].cells]
       /\ cellStyles = <<NoStyle, NoStyle, headingStyle>>
                         \o [i \in 1..Len(rows) |-> rows[i].style]
  /\ plateData = processWorksheet(jsonData, cellStyles, SheetName)
  /\ processed = TRUE
  /\ headerInfo = findHeaderRow(jsonData)
  /\ sheetDataRows = DataRowsOf(jsonData)
  /\ workbook \in Workbooks
  /\ scanDir \in MatchDirectories(MaxMatchFolders)
  /\ plateConfig = <<>>
  /\ matched = FALSE
  /\ previousConfig = <<>>
  /\ previousMatched = FALSE
  /\ ParseIdle
  /\ ValidatorIdle
  /\ RunIdle
  /\ StyleIdle
  /\ ServiceIdle
  /\ IndexIdle
  /\ OrdersIdle
  /\ ExecutorIdle

CallMatchPlatesWithModels ==
  /\ ~matched
  /\ \E ids \in [1..Len(plateData) -> PlateIds] :
       plateConfig' = matchPlatesWithModels(plateData,
                                            scanModelFiles(scanDir).modelFiles,
                                            extractImages(workbook).imageMap, ids)
  /\ matched' = TRUE
  /\ UNCHANGED <<workbook, scanDir, previousConfig, previousMatched>>
  /\ UNCHANGED <<parseVars, sheetVars, validatorVars, runVars, styleVars>>
  /\ UNCHANGED executorVars
  /\ UNCHANGED orderVars
  /\ UNCHANGED indexVars
  /\ UNCHANGED serviceVars

MatcherNext == CallMatchPlatesWithModels

SpecMatcher == MatcherInit /\ [][MatcherNext]_vars

(***************************************************************************)
(* Specification of the matcher called twice on the same plate records and  *)
(* the same model descriptors: worksheets of up to MaxRematchRows data rows *)
(***************************************************************************)
RematchSheetRows ==
  { [cells |-> Row(Str(<<"1">>), Str(<<"A", ":", " ", "-", "1", "0", "0">>),
                   Str(<<"S">>), Empty, Str(<<"X">>), Empty),
     style |-> NoStyle],
    [cells |-> Row(Str(<<"1", "2", "A">>), Empty, Empty, Empty, Empty, Empty),
     style |-> RedSolid],
    [cells |-> Row(Num(12), Empty, Empty, Empty, Empty, Empty), style |-> NoStyle] }

RematchInit ==
  /\ \E rows \in UNION {[1..k -> RematchSheetRows] : k \in 0..MaxRematchRows} :
       /\ jsonData = HeadingRows \o [i \in 1..Len(rows) |-> rows[i].cells]
       /\ cellStyles = <<NoStyle, NoStyle, NoStyle>>
                         \o [i \in 1..Len(rows) |-> rows[i].style]
  /\ plateData = processWorksheet(jsonData, cellStyles, SheetName)
  /\ processed = TRUE
  /\ headerInfo = findHeaderRow(jsonData)
  /\ sheetDataRows = DataRowsOf(jsonData)
  /\ workbook \in Workbooks
  /\ scanDir \in MatchDirectories(MaxMatchFolders)
  /\ plateConfig = <<>>
  /\ matched = FALSE
  /\ previousConfig = <<>>
  /\ previousMatched = FALSE
  /\ ParseIdle
  /\ ValidatorIdle
  /\ RunIdle
  /\ StyleIdle
  /\ ServiceIdle
  /\ IndexIdle
  /\ OrdersIdle
  /\ ExecutorIdle

\* one more call with the same excelData, modelFiles and imageMap
CallMatchPlatesWithModelsAgain ==
  /\ matched
  /\ \E ids \in [1..Len(plateData) -> PlateIds] :
       plateConfig' = matchPlatesWithModels(plateData,
                                            scanModelFiles(scanDir).modelFiles,
                                            extractImages(workbook).imageMap, ids)
  /\ previousConfig' = plateConfig
  /\ previousMatched' = TRUE
  /\ UNCHANGED <<workbook, scanDir, matched>>
  /\ UNCHANGED <<parseVars, sheetVars, validatorVars, runVars, styleVars>>
  /\ UNCHANGED executorVars
  /\ UNCHANGED orderVars
  /\ UNCHANGED indexVars
  /\ UNCHANGED serviceVars

RematchNext == CallMatchPlatesWithModels \/ CallMatchPlatesWithModelsAgain

SpecRematch == RematchInit /\ [][RematchNext]_vars

(***************************************************************************)
(* convert_excel_to_json.generateJsonConfig and the output file name        *)
(***************************************************************************)
HasModel(plate) == plate.currentModelFile # <<Null>>

HasWorkHistory(plate) == plate.workHistory # <<>>

\* the passes of the inner loop of generateModelIndex, in order: the model and
\* the plate of each
RECURSIVE ModelUses(_)
ModelUses(plates) ==
  IF plates = <<>> THEN <<>>
  ELSE [k \in 1..Len(Head(plates).modelFiles) |->
          [model |-> Head(plates).modelFiles[k], plate |-> Head(plates)]]
       \o ModelUses(Tail(plates))

\* the passes of the inner loop of generateWorkHistoryIndex
RECURSIVE ProjectUses(_)
ProjectUses(plates) ==
  IF plates = <<>> THEN <<>>
  ELSE [k \in 1..Len(Head(plates).workProjects) |->
          [project |-> Head(plates).workProjects[k], plate |-> Head(plates)]]
       \o ProjectUses(Tail(plates))

\* the pass that finds index[key] missing and creates it
FirstUse(keys, key) ==
  CHOOSE i \in 1..Len(keys) : keys[i] = key /\ \A j \in 1..(i - 1) : keys[j] # key

UsesOfFirstPlateOnly(uses, keys, key) ==
  <<[use |-> uses[FirstUse(keys, key)], key |-> key]>>

\* the passes that push to index[key].usedByPlates, in order
UsesOf(uses, keys, key) ==
  SelectSeq([i \in 1..Len(uses) |-> [use |-> uses[i], key |-> keys[i]]],
            LAMBDA u : u.key = key)

generateModelIndex(plateConfig1) ==
  LET uses == ModelUses(plateConfig1)
      keys == [i \in 1..Len(uses) |-> uses[i].model.relativePath]
  IN  [key \in {keys[i] : i \in 1..Len(keys)} |->
         [fileName     |-> uses[FirstUse(keys, key)].model.fileName,
          relativePath |-> key,
          usedByPlates |->
            [n \in 1..Len(UsesOf(uses, keys, key)) |->
               LET u == UsesOf(uses, keys, key)[n].use
               IN  [plateId     |-> u.plate.id,
                    plateNumber |-> u.plate.plateNumber,
                    shelfNumber |-> u.plate.shelfNumber,
                    isPrimary   |-> u.model.isPrimary]]]]

generateWorkHistoryIndex(plateConfig1) ==
  LET uses == ProjectUses(plateConfig1)
      keys == [i \in 1..Len(uses) |-> uses[i].project.fullEntry]
  IN  [key \in {keys[i] : i \in 1..Len(keys)} |->
         [projectCode  |-> uses[FirstUse(keys, key)].project.projectCode,
          workOrder    |-> uses[FirstUse(keys, key)].project.workOrder,
          fullEntry    |-> key,
          usedByPlates |->
            [n \in 1..Len(UsesOf(uses, keys, key)) |->
               LET u == UsesOf(uses, keys, key)[n].use
               IN  [plateId     |-> u.plate.id,
                    plateNumber |-> u.plate.plateNumber,
                    shelfNumber |-> u.plate.shelfNumber]]]]

generateJsonConfig(plates) ==
  [metadata |-> [totalPlates           |-> Len(plates),
                 platesWithModels      |-> Cardinality({i \in 1..Len(plates) : HasModel(plates[i])}),
                 platesWithWorkHistory |-> Cardinality({i \in 1..Len(plates) : HasWorkHistory(plates[i])})],
   plates           |-> plates,
   modelIndex       |-> generateModelIndex(plates),
   workHistoryIndex |-> generateWorkHistoryIndex(plates)]

(***************************************************************************)
(* Specification of the document: the plates of a worksheet of up to        *)
(* MaxIndexRows data rows, matched and handed to generateJsonConfig         *)
(***************************************************************************)
\* plates "1" and "12A" share the work order "A: -100"; plate 12 has none
IndexSheetRows ==
  { [cells |-> Row(Str(<<"1">>), Str(<<"A", ":", " ", "-", "1", "0", "0">>),
                   Str(<<"S">>), Empty, Str(<<"X">>), Empty),
     style |-> NoStyle],
    [cells |-> Row(Str(<<"1", "2", "A">>), Str(<<"A", ":", " ", "-", "1", "0", "0">>),
                   Empty, Empty, Empty, Empty),
     style |-> NoStyle],
    [cells |-> Row(Empty, Str(<<"B", ":", " ", "-", "1", "0", "0", "b">>), Empty,
                   Empty, Empty, Empty),
     style |-> NoStyle],
    [cells |-> Row(Num(12), Empty, Empty, Empty, Empty, Empty), style |-> NoStyle] }

IndexInit ==
  /\ \E rows \in UNION {[1..k -> IndexSheetRows] : k \in 0..MaxIndexRows} :
       /\ jsonData = HeadingRows \o [i \in 1..Len(rows) |-> rows[i].cells]
       /\ cellStyles = <<NoStyle, NoStyle, NoStyle>>
                         \o [i \in 1..Len(rows) |-> rows[i].style]
  /\ plateData = processWorksheet(jsonData, cellStyles, SheetName)
  /\ processed = TRUE
  /\ headerInfo = findHeaderRow(jsonData)
  /\ sheetDataRows = DataRowsOf(jsonData)
  /\ workbook = [readable |-> TRUE, exceljsReadable |-> TRUE, hasWorksheet |-> TRUE,
                 images |-> <<>>]
  /\ scanDir \in MatchDirectories(MaxMatchFolders)
  /\ plateConfig = <<>>
  /\ matched = FALSE
  /\ previousConfig = <<>>
  /\ previousMatched = FALSE
  /\ IndexIdle
  /\ ParseIdle
  /\ ValidatorIdle
  /\ RunIdle
  /\ StyleIdle
  /\ ServiceIdle
  /\ OrdersIdle
  /\ ExecutorIdle

\* step 8 of convertExcelToJson: generateJsonConfig(plateConfig)
CallGenerateJsonConfig ==
  /\ matched
  /\ ~generated
  /\ document' = generateJsonConfig(plateConfig)
  /\ generated' = TRUE
  /\ UNCHANGED <<parseVars, sheetVars, validatorVars, matcherVars, runVars, styleVars>>
  /\ UNCHANGED executorVars
  /\ UNCHANGED orderVars
  /\ UNCHANGED serviceVars

IndexNext == CallMatchPlatesWithModels \/ CallGenerateJsonConfig

SpecIndex == IndexInit /\ [][IndexNext]_vars

\* new Date().toISOString(): the date and time down to the second (written
\* here as the count of seconds), ".", three digits of milliseconds, "Z"
ToISOString(ms) ==
  NumberToString(ms \div 1000)
    \o <<".", DigitChar[((ms % 1000) \div 100) + 1],
         DigitChar[(((ms % 1000) \div 10) % 10) + 1],
         DigitChar[(ms % 10) + 1], "Z">>

\* .replace(/[:.]/g, "-")
ReplaceColonAndDot(s) ==
  [i \in 1..Len(s) |-> IF s[i] \in {":", "."} THEN "-" ELSE s[i]]

\* .slice(0, -5)
DropLastFive(s) == SubSeq(s, 1, Len(s) - 5)

Timestamp(ms) == DropLastFive(ReplaceColonAndDot(ToISOString(ms)))

\* `clamping_plates_inventory_${timestamp}.json` in permanentDir
OutputPath(timestamp) ==
  <<"clamping_plates_inventory_">> \o timestamp \o <<".json">>

\* fs.writeFile: creates the file or replaces its content
WriteFile(dir, path, content) ==
  [f \in DOMAIN dir \cup {path} |-> IF f = path THEN content ELSE dir[f]]

PreviewContent == [kind |-> "preview", writer |-> 0, config |-> <<>>]

WritePreviews(dir, paths) ==
  [f \in DOMAIN dir \cup paths |-> IF f \in paths THEN PreviewContent ELSE dir[f]]

(***************************************************************************)
(* convert_excel_to_json.convertExcelToJson, one action per awaited step    *)
(***************************************************************************)
\* how <modelScanPath>/models shows in the listing of modelScanPath: a folder
\* whose files are the names of its entries
ModelsEntry(dir) ==
  [name        |-> <<"models">>,
   isDirectory |-> TRUE,
   readable    |-> dir.readable,
   ext         |-> "",
   files       |-> [i \in 1..Len(dir.entries) |->
                      File(dir.entries[i].name, dir.entries[i].ext)]]

\* the directory scanModelFiles(modelScanPath) lists
ScanListing ==
  [exists   |-> scanDir.exists,
   readable |-> scanDir.readable,
   entries  |-> scanDir.entries
                  \o (IF modelsDir.exists THEN <<ModelsEntry(modelsDir)>> ELSE <<>>)]

\* the try around fs.access and validateModelFolders
ValidationOutcome(dir) ==
  IF ~dir.exists THEN "skipped"
  ELSE IF validateModelFolders(dir).threw THEN "threw"
  ELSE IF ~validateModelFolders(dir).valid THEN "invalid"
  ELSE "valid"

AfterValidationNeverRethrown(outcome) == "scan"

\* its catch: ENOENT is skipped, every other error is rethrown
AfterValidation(outcome) ==
  IF outcome \in {"threw", "invalid"} THEN "thrown" ELSE "scan"

AfterScanNeverExits(validationIssues) == "write"

\* process.exit(1) when the scan reported issues
AfterScan(validationIssues) ==
  IF Len(validationIssues) > 0 THEN "exited" ELSE "write"

ProcessExcelFile(r) ==
  /\ pc[r] = "processExcel"
  /\ pc' = [pc EXCEPT ![r] = IF workbook.readable THEN "extractImages"
                             ELSE "thrown"]
  /\ UNCHANGED <<now, permanentDir, written, outputPath, validationOf,
                 scanIssuesOf>>
  /\ UNCHANGED <<parseVars, sheetVars, validatorVars, matcherVars, styleVars>>
  /\ UNCHANGED executorVars
  /\ UNCHANGED orderVars
  /\ UNCHANGED indexVars
  /\ UNCHANGED serviceVars

ExtractImages(r) ==
  /\ pc[r] = "extractImages"
  /\ permanentDir' = WritePreviews(permanentDir, extractImages(workbook).files)
  /\ written' = [written EXCEPT ![r] = @ \cup extractImages(workbook).files]
  /\ pc' = [pc EXCEPT ![r] = "validate"]
  /\ UNCHANGED <<now, outputPath, validationOf, scanIssuesOf>>
  /\ UNCHANGED <<parseVars, sheetVars, validatorVars, matcherVars, styleVars>>
  /\ UNCHANGED executorVars
  /\ UNCHANGED orderVars
  /\ UNCHANGED indexVars
  /\ UNCHANGED serviceVars

ValidateStructure(r) ==
  /\ pc[r] = "validate"
  /\ validationOf' = [validationOf EXCEPT ![r] = ValidationOutcome(modelsDir)]
  /\ pc' = [pc EXCEPT ![r] = AfterValidation(ValidationOutcome(modelsDir))]
  /\ UNCHANGED <<now, permanentDir, written, outputPath, scanIssuesOf>>
  /\ UNCHANGED <<parseVars, sheetVars, validatorVars, matcherVars, styleVars>>
  /\ UNCHANGED executorVars
  /\ UNCHANGED orderVars
  /\ UNCHANGED indexVars
  /\ UNCHANGED serviceVars

ScanModels(r) ==
  /\ pc[r] = "scan"
  /\ scanIssuesOf' =
       [scanIssuesOf EXCEPT ![r] = Len(scanModelFiles(ScanListing).validationIssues)]
  /\ pc' = [pc EXCEPT ![r] = AfterScan(scanModelFiles(ScanListing).validationIssues)]
  /\ UNCHANGED <<now, permanentDir, written, outputPath, validationOf>>
  /\ UNCHANGED <<parseVars, sheetVars, validatorVars, matcherVars, styleVars>>
  /\ UNCHANGED executorVars
  /\ UNCHANGED orderVars
  /\ UNCHANGED indexVars
  /\ UNCHANGED serviceVars

\* steps 7 to 9: match, generate, write
SaveInventory(r) ==
  /\ pc[r] = "write"
  /\ \E ids \in [1..Len(processWorksheet(jsonData, cellStyles, SheetName))
                   -> PlateIds] :
       LET plates == matchPlatesWithModels(
                       processWorksheet(jsonData, cellStyles, SheetName),
                       scanModelFiles(ScanListing).modelFiles,
                       extractImages(workbook).imageMap, ids)
           path   == OutputPath(Timestamp(now))
       IN  /\ permanentDir' =
                WriteFile(permanentDir, path,
                          [kind |-> "inventory", writer |-> r,
                           config |-> generateJsonConfig(plates)])
           /\ written' = [written EXCEPT ![r] = @ \cup {path}]
           /\ outputPath' = [outputPath EXCEPT ![r] = path]
  /\ pc' = [pc EXCEPT ![r] = "done"]
  /\ UNCHANGED <<now, validationOf, scanIssuesOf>>
  /\ UNCHANGED <<parseVars, sheetVars, validatorVars, matcherVars, styleVars>>
  /\ UNCHANGED executorVars
  /\ UNCHANGED orderVars
  /\ UNCHANGED indexVars
  /\ UNCHANGED serviceVars

\* fs.writeFile rejects: the catch logs and rethrows
SaveInventoryFails(r) ==
  /\ pc[r] = "write"
  /\ pc' = [pc EXCEPT ![r] = "thrown"]
  /\ UNCHANGED <<now, permanentDir, written, outputPath, validationOf,
                 scanIssuesOf>>
  /\ UNCHANGED <<parseVars, sheetVars, validatorVars, matcherVars, styleVars>>
  /\ UNCHANGED executorVars
  /\ UNCHANGED orderVars
  /\ UNCHANGED indexVars
  /\ UNCHANGED serviceVars

Tick ==
  /\ now + TickMs <= MaxNow
  /\ now' = now + TickMs
  /\ UNCHANGED <<pc, permanentDir, written, outputPath, validationOf,
                 scanIssuesOf>>
  /\ UNCHANGED <<parseVars, sheetVars, validatorVars, matcherVars, styleVars>>
  /\ UNCHANGED executorVars
  /\ UNCHANGED orderVars
  /\ UNCHANGED indexVars
  /\ UNCHANGED serviceVars

(***************************************************************************)
(* Specification of the conversion: two runs against the same source files  *)
(* and the same permanent data directory                                    *)
(***************************************************************************)
RunSheetRows ==
  { [cells |-> Row(Str(<<"1", "2", "A">>),
                   Str(<<"A", ":", " ", "-", "1", "0", "0">>),
                   Str(<<"S">>), Empty, Str(<<"X">>), Empty),
     style |-> NoStyle],
    [cells |-> Row(Num(12), Empty, Empty, Empty, Empty, Empty), style |-> NoStyle] }

RunWorkbooks ==
  { NoWorkbook,
    [readable |-> TRUE, exceljsReadable |-> TRUE, hasWorksheet |-> TRUE,
     images |-> <<>>],
    [readable |-> TRUE, exceljsReadable |-> TRUE, hasWorksheet |-> TRUE,
     images |-> <<Image(TRUE, "jpeg", NoRange), Image(FALSE, "png", 3)>>] }

RunEntryKinds ==
  { [isDirectory |-> TRUE, readable |-> TRUE, ext |-> "",
     files |-> <<File("a", ".step"), File("a", ".png")>>],
    [isDirectory |-> TRUE, readable |-> TRUE, ext |-> "",
     files |-> <<File("a", ".step"), File("b", ".step"), File("a", ".png")>>],
    [isDirectory |-> TRUE, readable |-> FALSE, ext |-> "", files |-> <<>>],
    [isDirectory |-> FALSE, readable |-> TRUE, ext |-> ".step", files |-> <<>>],
    [isDirectory |-> FALSE, readable |-> TRUE, ext |-> ".png", files |-> <<>>] }

RunDirectories(n) ==
  [exists : {TRUE}, readable : {TRUE},
   entries : {Named(kinds) : kinds \in UNION {[1..k -> RunEntryKinds] : k \in 0..n}}]
  \cup {[exists |-> TRUE, readable |-> FALSE, entries |-> <<>>], NoDirectory}

\* modelScanPath: missing, not listable, empty, or with one folder "12A" that
\* is in order, holds two models, or cannot be listed
ScanDirectories ==
  {NoDirectory, [exists |-> TRUE, readable |-> FALSE, entries |-> <<>>],
   [exists |-> TRUE, readable |-> TRUE, entries |-> <<>>]}
  \cup {[exists |-> TRUE, readable |-> TRUE, entries |-> Named(<<kind>>)] :
          kind \in {k \in RunEntryKinds : k.isDirectory}}

Init ==
  /\ \E rows \in UNION {[1..k -> RunSheetRows] : k \in 0..MaxRunRows} :
       /\ jsonData = HeadingRows \o [i \in 1..Len(rows) |-> rows[i].cells]
       /\ cellStyles = <<NoStyle, NoStyle, NoStyle>>
                         \o [i \in 1..Len(rows) |-> rows[i].style]
  /\ plateData = <<>>
  /\ processed = FALSE
  /\ headerInfo = NoHeaderInfo
  /\ sheetDataRows = <<>>
  /\ workbook \in RunWorkbooks
  /\ scanDir \in ScanDirectories
  /\ modelsDir \in RunDirectories(MaxRunFolders)
  /\ modelsDir.exists => scanDir.exists
  /\ validationResult = ValidationThrew
  /\ validated = FALSE
  /\ plateConfig = <<>>
  /\ matched = FALSE
  /\ previousConfig = <<>>
  /\ previousMatched = FALSE
  /\ pc = [r \in Runs |-> "processExcel"]
  /\ now = 0
  /\ permanentDir = [f \in {} |-> Null]
  /\ written = [r \in Runs |-> {}]
  /\ outputPath = [r \in Runs |-> NoPath]
  /\ validationOf = [r \in Runs |-> "pending"]
  /\ scanIssuesOf = [r \in Runs |-> 0]
  /\ ParseIdle
  /\ StyleIdle
  /\ ServiceIdle
  /\ IndexIdle
  /\ OrdersIdle
  /\ ExecutorIdle

Next ==
  \/ \E r \in Runs : ProcessExcelFile(r)
  \/ \E r \in Runs : ExtractImages(r)
  \/ \E r \in Runs : ValidateStructure(r)
  \/ \E r \in Runs : ScanModels(r)
  \/ \E r \in Runs : SaveInventory(r)
  \/ \E r \in Runs : SaveInventoryFails(r)
  \/ Tick

Spec == Init /\ [][Next]_vars

(***************************************************************************)
(* Specification of the lock detector: hasRedBackground on a worksheet of   *)
(* one styled cell A1, asked about row 1 or about row 2, which has no cell  *)
(***************************************************************************)
PatternTypes == {"solid", "none", Undefined}

\* red and green rgb texts, the red theme 2, the red index 10, the index 64, a
\* green rgb that hides a red index, and a theme 0 beside the red index 9
StyleColors ==
  {NoColor, Rgb("FFFF0000"), Rgb("FF00B050"), Theme("2"), Indexed("10"),
   Indexed("64"), [rgb |-> "FF00B050", theme |-> Undefined, indexed |-> "10"],
   [rgb |-> Undefined, theme |-> "0", indexed |-> "9"]}

Styles ==
  {NoStyle} \cup
  [fill : [patternType : PatternTypes, fgColor : StyleColors,
           bgColor : StyleColors],
   bgColor : StyleColors, present : {TRUE}]

StyleInit ==
  /\ cellStyles \in {<<style>> : style \in Styles}
  /\ styleRow \in 1..2
  /\ redBackground = FALSE
  /\ redChecked = FALSE
  /\ jsonData = <<>>
  /\ plateData = <<>>
  /\ processed = FALSE
  /\ headerInfo = NoHeaderInfo
  /\ sheetDataRows = <<>>
  /\ ParseIdle
  /\ ValidatorIdle
  /\ MatcherIdle
  /\ RunIdle
  /\ ServiceIdle
  /\ IndexIdle
  /\ OrdersIdle
  /\ ExecutorIdle

CallHasRedBackground ==
  /\ ~redChecked
  /\ redBackground' = hasRedBackground(cellStyles, styleRow, 0)
  /\ redChecked' = TRUE
  /\ UNCHANGED styleRow
  /\ UNCHANGED <<parseVars, sheetVars, validatorVars, matcherVars, runVars>>
  /\ UNCHANGED executorVars
  /\ UNCHANGED orderVars
  /\ UNCHANGED indexVars
  /\ UNCHANGED serviceVars

StyleNext == CallHasRedBackground

SpecStyle == StyleInit /\ [][StyleNext]_vars

(***************************************************************************)
(* PlateService (src/PlateService.js)                                       *)
(***************************************************************************)
\* config.plates
healthStates == {"new", "used", "locked"}

occupancyStates == {"free", "in-use"}

maxHistoryEntries == 100

UpperCase == {UpperCaseLetters[k] : k \in 1..26}

Digits == {DigitChar[k] : k \in 1..10}

\* config.plates.workOrderPattern.test(workOrderName):
\* /^W\d{4}[A-Z]{2}\d{2}\d{3}[A-Z]?$/
workOrderPatternTest(workOrderName) ==
  /\ Len(workOrderName) \in {12, 13}
  /\ workOrderName[1] = "W"
  /\ \A k \in 2..5 : workOrderName[k] \in Digits
  /\ \A k \in 6..7 : workOrderName[k] \in UpperCase
  /\ \A k \in 8..12 : workOrderName[k] \in Digits
  /\ Len(workOrderName) = 13 => workOrderName[13] \in UpperCase

\* lastWorkName of a plate that never had a work order
NoWorkName == <<Undefined>>

\* the entry addHistoryEntry builds; its id is a random text that nothing
\* reads and is left out
HistoryEntry(action, user, details) ==
  [action |-> action, user |-> user, date |-> now, details |-> details]

\* addHistoryEntry: push, then shift while the history is over the limit.
\* The array is the one the stored plate holds too; every caller stores the
\* new plate right after, with no call in between that can throw.
addHistoryEntryNoLimit(plate, action, user, details) ==
  [plate EXCEPT !.history = Append(@, HistoryEntry(action, user, details))]

addHistoryEntry(plate, action, user, details) ==
  LET pushed == Append(plate.history, HistoryEntry(action, user, details))
  IN  [plate EXCEPT !.history = IF Len(pushed) > maxHistoryEntries
                                THEN Tail(pushed) ELSE pushed]

\* validatePlate throws for a plate without id or shelf or with a state that
\* config.plates does not list
validatePlateThrows(plate) ==
  \/ plate.id \in {Absent, ""}
  \/ plate.shelf \in {Absent, ""}
  \/ plate.health \notin healthStates
  \/ plate.occupancy \notin occupancyStates

\* validatePlate when it returns: the history cut to its last entries
validatePlate(plate) ==
  [plate EXCEPT !.history =
     IF Len(@) > maxHistoryEntries
     THEN SubSeq(@, Len(@) - maxHistoryEntries + 1, Len(@)) ELSE @]

\* value || fallback for a property that may be absent or empty
OrElse(value, fallback) == IF value \in {Absent, ""} THEN fallback ELSE value

significantFields == {"health", "occupancy", "shelf", "lastWorkName"}

hasSignificantChanges(oldPlate, newPlate) ==
  \E field \in significantFields : oldPlate[field] # newPlate[field]

getChangeDescription(oldPlate, newPlate) ==
  (IF oldPlate.health # newPlate.health
   THEN <<"health: ", oldPlate.health, newPlate.health>> ELSE <<>>)
  \o (IF oldPlate.occupancy # newPlate.occupancy
      THEN <<"occupancy: ", oldPlate.occupancy, newPlate.occupancy>> ELSE <<>>)
  \o (IF oldPlate.shelf # newPlate.shelf
      THEN <<"shelf: ", oldPlate.shelf, newPlate.shelf>> ELSE <<>>)

\* this.plates.set(plateId, plate)
MapSet(map, plateId, plate) ==
  [id \in DOMAIN map \cup {plateId} |-> IF id = plateId THEN plate ELSE map[id]]

\* this.plates.delete(plateId)
MapDelete(map, plateId) == [id \in DOMAIN map \ {plateId} |-> map[id]]

\* createPlate up to its call of savePlates
createPlate(map, plateData1, generatedId) ==
  LET plate == [id               |-> OrElse(plateData1.id, generatedId),
                shelf            |-> plateData1.shelf,
                health           |-> OrElse(plateData1.health, "new"),
                occupancy        |-> OrElse(plateData1.occupancy, "free"),
                notes            |-> OrElse(plateData1.notes, ""),
                lastWorkName     |-> NoWorkName,
                lastModifiedBy   |-> OrElse(plateData1.modifiedBy, "system"),
                lastModifiedDate |-> now,
                modifiedBy       |-> Absent,
                history          |-> <<>>]
  IN  IF validatePlateThrows(plate) THEN [threw |-> TRUE, map |-> map]
      ELSE [threw |-> FALSE,
            map   |-> MapSet(map, plate.id,
                             addHistoryEntry(validatePlate(plate), "created",
                                             OrElse(plateData1.modifiedBy, "system"),
                                             <<"Plate created">>))]

\* {...existingPlate, ...updateData, id, lastModifiedBy, lastModifiedDate}
Spread(existingPlate, updateData, plateId) ==
  [existingPlate EXCEPT
     !.shelf            = IF updateData.shelf # Absent THEN updateData.shelf ELSE @,
     !.health           = IF updateData.health # Absent THEN updateData.health ELSE @,
     !.occupancy        = IF updateData.occupancy # Absent
                          THEN updateData.occupancy ELSE @,
     !.notes            = IF updateData.notes # Absent THEN updateData.notes ELSE @,
     !.modifiedBy       = IF updateData.modifiedBy # Absent
                          THEN updateData.modifiedBy ELSE @,
     !.id               = plateId,
     !.lastModifiedBy   = OrElse(updateData.modifiedBy, "system"),
     !.lastModifiedDate = now]

\* updatePlate up to its call of savePlates
updatePlate(map, plateId, updateData) ==
  IF plateId \notin DOMAIN map THEN [threw |-> TRUE, map |-> map]
  ELSE LET existingPlate == map[plateId]
           updatedPlate  == Spread(existingPlate, updateData, plateId)
       IN  IF validatePlateThrows(updatedPlate) THEN [threw |-> TRUE, map |-> map]
           ELSE LET validatedPlate == validatePlate(updatedPlate)
                IN  [threw |-> FALSE,
                     map   |-> MapSet(map, plateId,
                                 IF hasSignificantChanges(existingPlate, validatedPlate)
                                 THEN addHistoryEntry(validatedPlate, "updated",
                                        OrElse(updateData.modifiedBy, "system"),
                                        getChangeDescription(existingPlate,
                                                             validatedPlate))
                                 ELSE validatedPlate)]

\* deletePlate up to its call of savePlates
deletePlate(map, plateId) ==
  IF plateId \notin DOMAIN map THEN [threw |-> TRUE, map |-> map]
  ELSE IF map[plateId].occupancy = "in-use" THEN [threw |-> TRUE, map |-> map]
  ELSE [threw |-> FALSE, map |-> MapDelete(map, plateId)]

StartRefusedWhenInUseOnly(plate) == plate.occupancy = "in-use"

\* the two checks of startWork on the state of the plate
StartRefused(plate) == plate.occupancy = "in-use" \/ plate.health = "locked"

\* startWork up to its call of savePlates
startWork(map, plateId, workOrderName, startedBy) ==
  IF plateId \notin DOMAIN map THEN [threw |-> TRUE, map |-> map]
  ELSE IF StartRefused(map[plateId]) THEN [threw |-> TRUE, map |-> map]
  ELSE IF ~workOrderPatternTest(workOrderName) THEN [threw |-> TRUE, map |-> map]
  ELSE LET updatedPlate == [map[plateId] EXCEPT
                              !.occupancy        = "in-use",
                              !.lastWorkName     = workOrderName,
                              !.lastModifiedBy   = startedBy,
                              !.lastModifiedDate = now]
       IN  [threw |-> FALSE,
            map   |-> MapSet(map, plateId,
                             addHistoryEntry(updatedPlate, "work_started", startedBy,
                                             <<"Work started: ">> \o workOrderName))]

\* finishWork up to its call of savePlates
finishWork(map, plateId, finishedBy, notes) ==
  IF plateId \notin DOMAIN map THEN [threw |-> TRUE, map |-> map]
  ELSE IF map[plateId].occupancy # "in-use" THEN [threw |-> TRUE, map |-> map]
  ELSE LET plate        == map[plateId]
           updatedPlate == [plate EXCEPT
                              !.occupancy        = "free",
                              !.health           = "used",
                              !.lastModifiedBy   = finishedBy,
                              !.lastModifiedDate = now,
                              !.notes            = OrElse(notes, plate.notes)]
       IN  [threw |-> FALSE,
            map   |-> MapSet(map, plateId,
                             addHistoryEntry(updatedPlate, "work_finished", finishedBy,
                                             <<"Work finished: ">> \o plate.lastWorkName
                                               \o (IF notes # "" THEN <<" - ", notes>>
                                                   ELSE <<>>)))]

(***************************************************************************)
(* Specification of the plate service: up to MaxOps operations on the       *)
(* plates loaded from storage                                               *)
(***************************************************************************)
ServiceIds == {"p1", "p2"}

ValidWorkOrder == <<"W", "5", "2", "7", "0", "N", "S", "0", "1", "0", "0", "1", "A">>

WorkOrderNames == {ValidWorkOrder, <<"W", "1">>}

\* a plate as loadPlates stores it
LoadedPlate(id, health, occupancy) ==
  [id               |-> id,
   shelf            |-> "A1",
   health           |-> health,
   occupancy        |-> occupancy,
   notes            |-> "",
   lastWorkName     |-> IF occupancy = "in-use" THEN ValidWorkOrder ELSE NoWorkName,
   lastModifiedBy   |-> "system",
   lastModifiedDate |-> now,
   modifiedBy       |-> Absent,
   history          |-> <<>>]

\* a history of n entries as the plates file holds it, the oldest first
StoredHistory(n) ==
  [k \in 1..n |-> [action |-> "updated", user |-> "system", date |-> 0,
                   details |-> NumberToString(k)]]

\* the plates in storage: p1 in any state but locked and in use at once, p2
\* new and free, without history or with one entry more in the file than
\* maxHistoryEntries, each one there or not; loadPlates stores what
\* validatePlate returns
LoadedMaps ==
  LET firsts  == {LoadedPlate("p1", h, o) : h \in healthStates, o \in occupancyStates}
                   \ {LoadedPlate("p1", "locked", "in-use")}
      seconds == {validatePlate(LoadedPlate("p2", "new", "free")),
                  validatePlate([LoadedPlate("p2", "new", "free") EXCEPT
                                   !.history = StoredHistory(maxHistoryEntries + 1)])}
  IN  {NoPlates}
      \cup {MapSet(NoPlates, "p1", a) : a \in firsts}
      \cup {MapSet(NoPlates, "p2", b) : b \in seconds}
      \cup {MapSet(MapSet(NoPlates, "p1", a), "p2", b) : a \in firsts, b \in seconds}

PlateDatas ==
  [id : {"p2", Absent}, shelf : {"A1", Absent}, health : {Absent, "locked"},
   occupancy : {Absent}, notes : {Absent}, modifiedBy : {Absent, "op"}]

NoUpdate ==
  [shelf |-> Absent, health |-> Absent, occupancy |-> Absent, notes |-> Absent,
   modifiedBy |-> Absent]

UpdateDatas ==
  {NoUpdate,
   [NoUpdate EXCEPT !.notes = "worn", !.modifiedBy = "op"],
   [NoUpdate EXCEPT !.health = "locked", !.modifiedBy = "op"],
   [NoUpdate EXCEPT !.health = "used"],
   [NoUpdate EXCEPT !.occupancy = "in-use"],
   [NoUpdate EXCEPT !.shelf = ""]}

ServiceInit ==
  /\ now = 0
  /\ platesMap \in LoadedMaps
  /\ savedPlates = platesMap
  /\ platesBefore = platesMap
  /\ lastCall = NoCall
  /\ opCount = 0
  /\ pc = [r \in Runs |-> "idle"]
  /\ permanentDir = [f \in {} |-> Null]
  /\ written = [r \in Runs |-> {}]
  /\ outputPath = [r \in Runs |-> NoPath]
  /\ validationOf = [r \in Runs |-> "pending"]
  /\ scanIssuesOf = [r \in Runs |-> 0]
  /\ ParseIdle
  /\ SheetIdle
  /\ ValidatorIdle
  /\ MatcherIdle
  /\ StyleIdle
  /\ IndexIdle
  /\ OrdersIdle
  /\ ExecutorIdle

\* the end of every operation: savePlates, which may reject, and the catch
\* that logs and rethrows
Returns(op, plateId, user, result, saveFails) ==
  /\ platesBefore' = platesMap
  /\ platesMap' = result.map
  /\ savedPlates' = IF result.threw \/ saveFails THEN savedPlates ELSE result.map
  /\ lastCall' = [op |-> op, plateId |-> plateId, user |-> user,
                  threw |-> result.threw \/ saveFails]
  /\ opCount' = opCount + 1
  /\ UNCHANGED <<parseVars, sheetVars, validatorVars, matcherVars, styleVars, runVars>>
  /\ UNCHANGED executorVars
  /\ UNCHANGED orderVars
  /\ UNCHANGED indexVars

CreatePlate ==
  /\ opCount < MaxOps
  /\ \E plateData1 \in PlateDatas, saveFails \in BOOLEAN :
     \E generatedId \in (IF plateData1.id = Absent
                          THEN ServiceIds \ DOMAIN platesMap ELSE {Absent}) :
       Returns("createPlate", OrElse(plateData1.id, generatedId),
               OrElse(plateData1.modifiedBy, "system"),
               createPlate(platesMap, plateData1, generatedId), saveFails)

UpdatePlate ==
  /\ opCount < MaxOps
  /\ \E plateId \in ServiceIds, updateData \in UpdateDatas, saveFails \in BOOLEAN :
       Returns("updatePlate", plateId, OrElse(updateData.modifiedBy, "system"),
               updatePlate(platesMap, plateId, updateData), saveFails)

DeletePlate ==
  /\ opCount < MaxOps
  /\ \E plateId \in ServiceIds, saveFails \in BOOLEAN :
       Returns("deletePlate", plateId, "system",
               deletePlate(platesMap, plateId), saveFails)

StartWork ==
  /\ opCount < MaxOps
  /\ \E plateId \in ServiceIds, workOrderName \in WorkOrderNames, saveFails \in BOOLEAN :
       Returns("startWork", plateId, "op",
               startWork(platesMap, plateId, workOrderName, "op"), saveFails)

FinishWork ==
  /\ opCount < MaxOps
  /\ \E plateId \in ServiceIds, notes \in {"", "done"}, saveFails \in BOOLEAN :
       Returns("finishWork", plateId, "op",
               finishWork(platesMap, plateId, "op", notes), saveFails)

ServiceNext == CreatePlate \/ UpdatePlate \/ DeletePlate \/ StartWork \/ FinishWork

SpecService == ServiceInit /\ [][ServiceNext]_vars

(***************************************************************************)
(* WorkOrderService: each operation returns whether it threw and the map    *)
(* of work orders it leaves                                                 *)
(***************************************************************************)
\* the place of a plate in the array dataManager.loadPlates returns
PlaceOf(id) == CHOOSE k \in 1..2 : <<"p1", "p2">>[k] = id

\* loadWorkOrders: one active work order per plate in use with a lastWorkName;
\* of two plates with the same lastWorkName the later one stays
loadWorkOrders(plates) ==
  LET inUse == {id \in DOMAIN plates :
                  /\ plates[id].occupancy = "in-use"
                  /\ plates[id].lastWorkName \notin {NoWorkName, <<>>}}
  IN  [name \in {plates[id].lastWorkName : id \in inUse} |->
         LET plate == plates[CHOOSE id \in inUse :
                               /\ plates[id].lastWorkName = name
                               /\ \A other \in inUse :
                                    plates[other].lastWorkName = name
                                      => PlaceOf(other) <= PlaceOf(id)]
         IN  [id          |-> name,
              plateId     |-> plate.id,
              status      |-> "active",
              createdDate |-> Absent,
              startDate   |-> Null,
              endDate     |-> Absent,
              createdBy   |-> Absent,
              completedBy |-> Absent]]

createWorkOrder(map, workOrderData) ==
  IF ~workOrderPatternTest(workOrderData.id) THEN [threw |-> TRUE, map |-> map]
  ELSE [threw |-> FALSE,
        map   |-> MapSet(map, workOrderData.id,
                         [id          |-> workOrderData.id,
                          plateId     |-> workOrderData.plateId,
                          status      |-> "pending",
                          createdDate |-> now,
                          startDate   |-> Null,
                          endDate     |-> Null,
                          createdBy   |-> OrElse(workOrderData.createdBy, "system"),
                          completedBy |-> Absent])]

startWorkOrder(map, workOrderId, plateId) ==
  IF workOrderId \notin DOMAIN map THEN [threw |-> TRUE, map |-> map]
  ELSE IF map[workOrderId].status # "pending" THEN [threw |-> TRUE, map |-> map]
  ELSE [threw |-> FALSE,
        map   |-> MapSet(map, workOrderId,
                         [map[workOrderId] EXCEPT !.status = "active",
                                                  !.startDate = now,
                                                  !.plateId = plateId])]

completeWorkOrder(map, workOrderId, completedBy) ==
  IF workOrderId \notin DOMAIN map THEN [threw |-> TRUE, map |-> map]
  ELSE IF map[workOrderId].status # "active" THEN [threw |-> TRUE, map |-> map]
  ELSE [threw |-> FALSE,
        map   |-> MapSet(map, workOrderId,
                         [map[workOrderId] EXCEPT !.status = "completed",
                                                  !.endDate = now,
                                                  !.completedBy = completedBy])]

(***************************************************************************)
(* Specification of the work orders: up to MaxOrderOps operations on the    *)
(* work orders loaded from the plates in storage                            *)
(***************************************************************************)
OtherWorkOrder == <<"W", "5", "2", "7", "0", "N", "S", "0", "1", "0", "0", "2">>

OrderIds == {ValidWorkOrder, OtherWorkOrder, <<"W", "1">>}

OrdersInit ==
  /\ now = 0
  /\ \E plates \in LoadedMaps : workOrders = loadWorkOrders(plates)
  /\ lastOrderCall = NoCall
  /\ orderOps = 0
  /\ pc = [r \in Runs |-> "idle"]
  /\ permanentDir = [f \in {} |-> Null]
  /\ written = [r \in Runs |-> {}]
  /\ outputPath = [r \in Runs |-> NoPath]
  /\ validationOf = [r \in Runs |-> "pending"]
  /\ scanIssuesOf = [r \in Runs |-> 0]
  /\ ParseIdle
  /\ SheetIdle
  /\ ValidatorIdle
  /\ MatcherIdle
  /\ StyleIdle
  /\ ServiceIdle
  /\ IndexIdle
  /\ ExecutorIdle

OrderReturns(op, workOrderId, user, result) ==
  /\ workOrders' = result.map
  /\ lastOrderCall' = [op |-> op, plateId |-> workOrderId, user |-> user,
                       threw |-> result.threw]
  /\ orderOps' = orderOps + 1
  /\ UNCHANGED <<parseVars, sheetVars, validatorVars, matcherVars, styleVars, runVars>>
  /\ UNCHANGED executorVars
  /\ UNCHANGED serviceVars
  /\ UNCHANGED indexVars

CreateWorkOrder ==
  /\ orderOps < MaxOrderOps
  /\ \E id \in OrderIds, plateId \in ServiceIds, createdBy \in {Absent, "op"} :
       OrderReturns("createWorkOrder", id, createdBy,
                    createWorkOrder(workOrders, [id |-> id, plateId |-> plateId,
                                                 createdBy |-> createdBy]))

StartWorkOrder ==
  /\ orderOps < MaxOrderOps
  /\ \E id \in OrderIds, plateId \in ServiceIds :
       OrderReturns("startWorkOrder", id, Absent,
                    startWorkOrder(workOrders, id, plateId))

CompleteWorkOrder ==
  /\ orderOps < MaxOrderOps
  /\ \E id \in OrderIds :
       OrderReturns("completeWorkOrder", id, "op",
                    completeWorkOrder(workOrders, id, "op"))

OrdersNext == CreateWorkOrder \/ StartWorkOrder \/ CompleteWorkOrder

SpecOrders == OrdersInit /\ [][OrdersNext]_vars

(***************************************************************************)
(* Executor.runAutoMode, one action per awaited step, and Executor.stop     *)
(***************************************************************************)
\* the awaited steps of initialize and of processCycle, in order
InitializeSteps ==
  <<"dataManager.initialize", "plateService.initialize",
    "workOrderService.initialize">>

CycleSteps == <<"updatePlateStatuses", "processPendingOperations", "generateReports">>

StepAfter(steps, step, last) ==
  LET k == CHOOSE i \in 1..Len(steps) : steps[i] = step
  IN  IF k < Len(steps) THEN steps[k + 1] ELSE last

\* this.isRunning = true, after the await of initialize
AfterInitialize(running) == TRUE

\* while (this.isRunning)
LoopTest(running) == IF running THEN CycleSteps[1] ELSE "returned"

\* the catch of processCycle: "Don't throw in auto mode, just log and continue"
CycleCatch(running) == IF running THEN "sleep" ELSE "thrown"

CountUp(n) == IF n < MaxCycles THEN n + 1 ELSE n

ExecutorUnchanged ==
  /\ UNCHANGED <<parseVars, sheetVars, validatorVars, matcherVars, styleVars, runVars>>
  /\ UNCHANGED serviceVars
  /\ UNCHANGED indexVars
  /\ UNCHANGED orderVars

(***************************************************************************)
(* Specification of the auto mode: one call of runAutoMode, calls of stop   *)
(* at any time, cycles counted up to MaxCycles                              *)
(***************************************************************************)
ExecutorInit ==
  /\ ExecutorIdle
  /\ ParseIdle
  /\ SheetIdle
  /\ ValidatorIdle
  /\ MatcherIdle
  /\ RunIdle
  /\ StyleIdle
  /\ ServiceIdle
  /\ IndexIdle
  /\ OrdersIdle

RunAutoMode ==
  /\ execPc = "constructed"
  /\ execPc' = InitializeSteps[1]
  /\ UNCHANGED <<isRunning, stopCalled, cycles, failures>>
  /\ ExecutorUnchanged

\* one awaited step of initialize resolves; after the last one the flag is set
\* and the loop condition is tested
InitializeStep ==
  /\ execPc \in {InitializeSteps[k] : k \in 1..Len(InitializeSteps)}
  /\ LET next == StepAfter(InitializeSteps, execPc, "done")
     IN  IF next = "done"
         THEN /\ isRunning' = AfterInitialize(isRunning)
              /\ execPc' = LoopTest(isRunning')
              /\ cycles' = IF isRunning' THEN CountUp(cycles) ELSE cycles
         ELSE /\ execPc' = next
              /\ UNCHANGED <<isRunning, cycles>>
  /\ UNCHANGED <<stopCalled, failures>>
  /\ ExecutorUnchanged

\* one awaited step of initialize rejects: both catches log and rethrow
InitializeFails ==
  /\ execPc \in {InitializeSteps[k] : k \in 1..Len(InitializeSteps)}
  /\ execPc' = "thrown"
  /\ UNCHANGED <<isRunning, stopCalled, cycles, failures>>
  /\ ExecutorUnchanged

\* one awaited step of processCycle resolves
CycleStep ==
  /\ execPc \in {CycleSteps[k] : k \in 1..Len(CycleSteps)}
  /\ execPc' = StepAfter(CycleSteps, execPc, "sleep")
  /\ UNCHANGED <<isRunning, stopCalled, cycles, failures>>
  /\ ExecutorUnchanged

\* one awaited step of processCycle rejects
CycleFails ==
  /\ execPc \in {CycleSteps[k] : k \in 1..Len(CycleSteps)}
  /\ execPc' = CycleCatch(isRunning)
  /\ failures' = CountUp(failures)
  /\ UNCHANGED <<isRunning, stopCalled, cycles>>
  /\ ExecutorUnchanged

\* the timer of sleep fires: the loop condition is tested again
SleepOver ==
  /\ execPc = "sleep"
  /\ execPc' = LoopTest(isRunning)
  /\ cycles' = IF isRunning THEN CountUp(cycles) ELSE cycles
  /\ UNCHANGED <<isRunning, stopCalled, failures>>
  /\ ExecutorUnchanged

\* stop(), called from outside between two steps of runAutoMode
Stop ==
  /\ execPc \notin {"constructed", "returned", "thrown"}
  /\ isRunning' = FALSE
  /\ stopCalled' = TRUE
  /\ UNCHANGED <<execPc, cycles, failures>>
  /\ ExecutorUnchanged

\* the steps the event loop takes whenever they are due
AutoModeStep == InitializeStep \/ CycleStep \/ SleepOver

ExecutorNext ==
  \/ RunAutoMode
  \/ InitializeStep
  \/ InitializeFails
  \/ CycleStep
  \/ CycleFails
  \/ SleepOver
  \/ Stop

SpecExecutor == ExecutorInit /\ [][ExecutorNext]_vars /\ WF_vars(AutoModeStep)

(***************************************************************************)
(* C9                                                                       *)
(***************************************************************************)
SeparatorPositions(t) == {i \in 1..Len(t) : t[i] \in Separator}

\* the j-th segment of t: the text between the (j-1)-th and the j-th separator
SegmentOf(t, j) ==
  LET before == {i \in SeparatorPositions(t) :
                   Cardinality({h \in SeparatorPositions(t) : h <= i}) = j - 1}
      after  == {i \in SeparatorPositions(t) :
                   Cardinality({h \in SeparatorPositions(t) : h <= i}) = j}
      from   == IF before = {} THEN 1 ELSE (CHOOSE i \in before : TRUE) + 1
      to     == IF after = {} THEN Len(t) ELSE (CHOOSE i \in after : TRUE) - 1
  IN  SubSeq(t, from, to)

\* the segment without its leading and trailing whitespace
Stripped(seg) ==
  LET ink == {i \in 1..Len(seg) : seg[i] \notin WhiteSpace}
  IN  IF ink = {} THEN <<>>
      ELSE SubSeq(seg, CHOOSE i \in ink : \A h \in ink : i <= h,
                       CHOOSE i \in ink : \A h \in ink : h <= i)

IsInk(seg) == seg # <<>>

InkSegments(t) ==
  SelectSeq([j \in 1..(Cardinality(SeparatorPositions(t)) + 1) |->
               Stripped(SegmentOf(t, j))], IsInk)

\* <capital letter> ':' <optional whitespace> <rest on one line>
HasProjectShape(seg) ==
  /\ Len(seg) >= 3
  /\ seg[1] \in CapitalLetter
  /\ seg[2] = ":"
  /\ \E k \in 3..Len(seg) :
       /\ \A i \in 3..(k - 1) : seg[i] \in WhiteSpace
       /\ \A i \in k..Len(seg) : seg[i] \notin LineTerminator

\* C9: parseWorkHistory returns exactly one entry per segment (split on ','
\* or ';') that is not pure whitespace, in segment order, with fullEntry the
\* trimmed segment; projectCode is the leading letter iff the segment has the
\* shape <capital letter>:<rest>, otherwise projectCode is null and workOrder
\* is the whole segment.
C9_OneEntryPerSegment ==
  parsed =>
    LET segs == InkSegments(workHistoryText)
    IN  /\ Len(projects) = Len(segs)
        /\ \A i \in 1..Len(segs) :
             /\ projects[i].fullEntry = segs[i]
             /\ (projects[i].projectCode # Null) <=> HasProjectShape(segs[i])
             /\ HasProjectShape(segs[i]) => projects[i].projectCode = segs[i][1]
             /\ ~HasProjectShape(segs[i]) => projects[i].workOrder = segs[i]

C9_Witness ==
  /\ parsed
  /\ Len(projects) = 2
  /\ projects[1].projectCode # Null
  /\ projects[2].projectCode = Null

(***************************************************************************)
(* C2, C8, C10: the row grouper                                             *)
(***************************************************************************)
\* the rows handed to groupRowsByMergedPlates, and the 0-based worksheet row
\* number of the i-th of them
GivenRows == SubSeq(jsonData, 4, Len(jsonData))

WorksheetRowOf(i) == i + 2

\* the value a cell shows: nothing for "", whitespace and the number 0
ValueOf(cell) ==
  IF cell.isNum
  THEN IF cell.num = 0 THEN <<>> ELSE NumberToString(cell.num)
  ELSE Stripped(cell.text)

PlateValue(i) == ValueOf(GivenRows[i][1])

\* the rows with a non-empty plate-number cell
StartRows == {i \in 1..Len(GivenRows) : PlateValue(i) # <<>>}

\* the rows in which a plate number appears for the first time
FirstAppearances ==
  {i \in StartRows : \A h \in StartRows : h < i => PlateValue(h) # PlateValue(i)}

\* the p-th smallest element of a set of numbers
Nth(S, p) == CHOOSE x \in S : Cardinality({y \in S : y < x}) = p - 1

Ascending(S) == [p \in 1..Cardinality(S) |-> Nth(S, p)]

\* the last row of the plate started at row s
LastRowOf(s) ==
  IF \E h \in StartRows : h > s
  THEN Nth({h \in StartRows : h > s}, 1) - 1
  ELSE Len(GivenRows)

AllCellsEmpty(i) ==
  \A c \in 1..Len(GivenRows[i]) : ValueOf(GivenRows[i][c]) = <<>>

\* C2 as stated: as many records as distinct non-empty plate numbers, in
\* order of first appearance
C2_DistinctPlateNumbers ==
  processed =>
    /\ Len(plateData) = Cardinality(FirstAppearances)
    /\ \A p \in 1..Len(plateData) :
         p <= Cardinality(FirstAppearances) =>
           plateData[p].plateNumber = PlateValue(Nth(FirstAppearances, p))

\* C2 amended: groupRowsByMergedPlates emits exactly one record per data row
\* with a non-empty plate-number cell, repeated plate numbers included, and
\* the plateNumbers of the records are those values in row order.
C2_OneRecordPerStartRow ==
  processed =>
    /\ Len(plateData) = Cardinality(StartRows)
    /\ \A p \in 1..Len(plateData) :
         plateData[p].plateNumber = PlateValue(Nth(StartRows, p))

C2_Witness ==
  /\ processed
  /\ Len(plateData) >= 3
  /\ plateData[1].plateNumber = plateData[3].plateNumber
  /\ plateData[1].plateNumber # plateData[2].plateNumber

RECURSIVE TokensOfRows(_, _)
TokensOfRows(from, to) ==
  IF from > to THEN <<>>
  ELSE (IF GivenRows[from][2].isNum
        THEN parseWorkHistory(ValueOf(GivenRows[from][2]))
        ELSE parseWorkHistory(GivenRows[from][2].text))
       \o TokensOfRows(from + 1, to)

\* C8: the work-history entries of a record are the concatenation, in row
\* order, of the tokens of the work-history cells of the row that started the
\* plate and of the following rows up to the next row with a plate number.
C8_HistoryOfAllRows ==
  processed =>
    \A p \in 1..Len(plateData) :
      p <= Cardinality(StartRows) =>
        plateData[p].workProjects =
          TokensOfRows(Nth(StartRows, p), LastRowOf(Nth(StartRows, p)))

C8_Witness ==
  /\ processed
  /\ Len(plateData) = 1
  /\ plateData[1].plateNumber = <<"1">>
  /\ plateData[1].workProjects =
       <<[projectCode |-> "A", workOrder |-> <<"-", "1", "0", "0">>,
          fullEntry |-> <<"A", ":", " ", "-", "1", "0", "0">>],
         [projectCode |-> "B", workOrder |-> <<"-", "1", "0", "0", "b">>,
          fullEntry |-> <<"B", ":", " ", "-", "1", "0", "0", "b">>]>>

\* C10 as stated: source.rows is the run of consecutive row numbers from the
\* starting row through the last following row without a plate number
C10_ContiguousRows ==
  processed =>
    \A p \in 1..Len(plateData) :
      p <= Cardinality(StartRows) =>
        LET s == Nth(StartRows, p)
        IN  plateData[p].source.rows =
              [k \in 1..(LastRowOf(s) - s + 1) |-> WorksheetRowOf(s) + k - 1]

\* C10 amended: source.rows is an increasing list of row numbers that starts
\* at the row that started the plate and holds every following row, up to the
\* next row with a plate number, that has no plate number and is not empty in
\* every column; the rows empty in every column are left out.
C10_RowsWithoutEmptyOnes ==
  processed =>
    \A p \in 1..Len(plateData) :
      p <= Cardinality(StartRows) =>
        LET s == Nth(StartRows, p)
        IN  plateData[p].source.rows =
              Ascending({WorksheetRowOf(i) : i \in {h \in s..LastRowOf(s) :
                                                     ~AllCellsEmpty(h)}})

C10_Witness ==
  /\ processed
  /\ \E p \in 1..Len(plateData) :
       /\ Len(plateData[p].source.rows) = 2
       /\ plateData[p].source.rows[2] = plateData[p].source.rows[1] + 2

(***************************************************************************)
(* C4: the validator                                                        *)
(***************************************************************************)
FoldersOf(dir) == {i \in 1..Len(dir.entries) : dir.entries[i].isDirectory}

NumberWith(files, extensions) ==
  Cardinality({k \in 1..Len(files) : ToLowerCase(files[k].ext) \in extensions})

\* exactly one file with a model extension and exactly one with an image
\* extension
OneModelOneImage(files) ==
  /\ NumberWith(files, modelExtensions) = 1
  /\ NumberWith(files, imageExtensions) = 1

FailingFolders(dir) ==
  {i \in FoldersOf(dir) : ~OneModelOneImage(dir.entries[i].files)}

\* C4: validateModelFolders examines every subfolder; issues has exactly one
\* entry per folder that does not hold exactly one model file and one image
\* file, in listing order; validFolders + issues.length = totalFolders; and
\* valid is true iff issues is empty.
C4_AllFoldersValidated ==
  (validated /\ ~validationResult.threw) =>
    LET failing == FailingFolders(modelsDir)
        issues  == validationResult.issues
    IN  /\ validationResult.totalFolders = Cardinality(FoldersOf(modelsDir))
        /\ Len(issues) = Cardinality(failing)
        /\ \A k \in 1..Len(issues) :
             k <= Cardinality(failing) =>
               issues[k].folder = modelsDir.entries[Nth(failing, k)].name
        /\ validationResult.validFolders + Len(issues)
             = validationResult.totalFolders
        /\ validationResult.valid <=> (issues = <<>>)

\* two failing folders after a valid one are both reported
C4_Witness ==
  /\ validated
  /\ ~validationResult.threw
  /\ validationResult.totalFolders = 3
  /\ validationResult.validFolders = 1
  /\ Len(validationResult.issues) = 2
  /\ ~validationResult.valid
  /\ \E k \in 1..2 : validationResult.issues[k].modelCount = 2

(***************************************************************************)
(* C3, C7: the matcher                                                      *)
(***************************************************************************)
\* the folders of scanDir that hold at least one file with a model format
FoldersWithModels ==
  {i \in 1..Len(scanDir.entries) :
     /\ scanDir.entries[i].isDirectory
     /\ \E k \in 1..Len(scanDir.entries[i].files) :
          ToLowerCase(scanDir.entries[i].files[k].ext) \in modelFormats}

\* C3: a plate is linked to a model only if the model's folder name is equal
\* to the plate number; when no model folder has that name, currentModelFile
\* is null, modelFiles is empty and modelStatus names the plate number.
C3_ExactFolderNameOnly ==
  matched =>
    \A i \in 1..Len(plateConfig) :
      LET plate == plateConfig[i]
          equal == {f \in FoldersWithModels :
                      scanDir.entries[f].name = plateData[i].plateNumber}
      IN  /\ \A k \in 1..Len(plate.modelFiles) :
               /\ plate.modelFiles[k].relativePath[1] = plateData[i].plateNumber
               /\ equal # {}
          /\ plate.currentModelFile # <<Null>> =>
               plate.currentModelFile[1] = plateData[i].plateNumber
          /\ equal = {} =>
               /\ plate.currentModelFile = <<Null>>
               /\ plate.modelFiles = <<>>
               /\ plate.modelStatus =
                    <<"No model folder found for plate ">> \o plateData[i].plateNumber

\* plate 12 with the folder 12A only stays without a model, plate 1 with a
\* folder 1 gets one
C3_Witness ==
  /\ matched
  /\ Len(plateConfig) = 2
  /\ plateConfig[1].plateNumber = <<"1", "2">>
  /\ plateConfig[1].currentModelFile = <<Null>>
  /\ plateConfig[1].modelStatus =
       <<"No model folder found for plate ", "1", "2">>
  /\ plateConfig[2].plateNumber = <<"1">>
  /\ plateConfig[2].currentModelFile # <<Null>>
  /\ \E f \in FoldersWithModels : scanDir.entries[f].name = <<"1", "2", "A">>

\* C7: health is "locked" if isLocked, otherwise "used" if the plate has a
\* work-history entry, otherwise "new"; occupancy is "free".
C7_HealthAndOccupancy ==
  matched =>
    \A i \in 1..Len(plateConfig) :
      /\ plateConfig[i].isLocked => plateConfig[i].health = "locked"
      /\ (~plateConfig[i].isLocked /\ plateConfig[i].workHistoryEntries # <<>>)
           => plateConfig[i].health = "used"
      /\ (~plateConfig[i].isLocked /\ plateConfig[i].workHistoryEntries = <<>>)
           => plateConfig[i].health = "new"
      /\ plateConfig[i].occupancy = "free"

\* a locked plate with work history, a used one and a new one
C7_Witness ==
  /\ matched
  /\ Len(plateConfig) = 2
  /\ plateConfig[1].isLocked
  /\ plateConfig[1].workHistoryEntries # <<>>
  /\ plateConfig[1].health = "locked"
  /\ plateConfig[2].health = "used"

(***************************************************************************)
(* C1, C5, C6: the run                                                      *)
(***************************************************************************)
IsInventory(f) == permanentDir[f].kind = "inventory"

\* C1: a run whose validation reported valid=false, or whose scan reported an
\* issue, has ended by throwing or exiting and never writes the inventory
\* document.
C1_NoDocumentWhenInvalid ==
  \A r \in Runs :
    (validationOf[r] = "invalid" \/ scanIssuesOf[r] > 0) =>
      /\ pc[r] \in {"thrown", "exited"}
      /\ outputPath[r] = NoPath
      /\ \A f \in DOMAIN permanentDir :
           IsInventory(f) => permanentDir[f].writer # r

\* one run threw on valid=false while the other run is past the same
\* validation
C1_Witness ==
  /\ validationOf[1] = "invalid"
  /\ pc[1] = "thrown"
  /\ pc[2] = "thrown"
  /\ written[1] # {}

\* C5: a run that ended by throwing or aborting has written no file in the
\* permanent data directory.
C5_FailClosed ==
  \A r \in Runs : pc[r] \in {"thrown", "exited"} => written[r] = {}

\* C6: the document a finished run has written is still the one in its
\* output file, whatever the other run has written since.
C6_NeverOverwritten ==
  \A r \in Runs :
    pc[r] = "done" =>
      /\ outputPath[r] \in DOMAIN permanentDir
      /\ permanentDir[outputPath[r]].writer = r

(***************************************************************************)
(* C11                                                                      *)
(***************************************************************************)
\* the part of a plate that links it to its model
LinkOf(plate) ==
  [currentModelFile |-> plate.currentModelFile, modelFiles |-> plate.modelFiles]

RootMissingOrUnreadable == ~scanDir.exists \/ ~scanDir.readable

\* C12: when the models root directory is missing or unreadable, no run
\* completes and no run writes an inventory document.
C12_MissingRootIsFatal ==
  RootMissingOrUnreadable =>
    \A r \in Runs :
      /\ pc[r] # "done"
      /\ outputPath[r] = NoPath
      /\ \A f \in DOMAIN permanentDir :
           IsInventory(f) => permanentDir[f].writer # r

(***************************************************************************)
(* C13                                                                      *)
(***************************************************************************)
\* the style of the cell asked about, NoStyle when there is no such cell
StyleAsked ==
  IF styleRow \in 1..Len(cellStyles) THEN cellStyles[styleRow] ELSE NoStyle

RedFamily(color) == isRedColor(ColorValue(color))

\* C13: hasRedBackground returns true exactly when the fill of the cell is a
\* solid pattern and its foreground or background colour is in the red
\* family; a cell whose fill is not solid is never classified as red.
C13_SolidRedFillOnly ==
  redChecked =>
    (redBackground <=>
       /\ StyleAsked.present
       /\ StyleAsked.fill.patternType = "solid"
       /\ \/ RedFamily(StyleAsked.fill.fgColor)
          \/ RedFamily(StyleAsked.fill.bgColor))

(***************************************************************************)
(* C14                                                                      *)
(***************************************************************************)
\* the style of the plate-number cell of the i-th data row
OwnStyle(i) == cellStyles[WorksheetRowOf(i) + 1]

\* C14: the record of a plate whose starting row has a plate-number cell
\* without style metadata is locked exactly when its plate number is in the
\* manual list of locked plates.
C14_ManualListDecides ==
  processed =>
    \A p \in 1..Len(plateData) :
      LET i == Nth(StartRows, p)
      IN  ~OwnStyle(i).present =>
            (plateData[p].isLocked <=> PlateValue(i) \in manuallyLockedPlates)

(***************************************************************************)
(* C15, C16                                                                 *)
(***************************************************************************)
\* C15: whatever the worksheet holds, findHeaderRow returns a layout, and the
\* layout maps plateNumber, workHistory, shelfNumber, previewImage and
\* boxSize to the columns 0, 1, 2, 3, 4.
C15_FixedLayoutAlways ==
  (processed /\ Len(jsonData) > 0) =>
    /\ headerInfo.rowIndex \in Nat
    /\ headerInfo.columnMap.plateNumber = 0
    /\ headerInfo.columnMap.workHistory = 1
    /\ headerInfo.columnMap.shelfNumber = 2
    /\ headerInfo.columnMap.previewImage = 3
    /\ headerInfo.columnMap.boxSize = 4

\* the first row is a heading row that names the project in column 0 and the
\* plate number in column 1, and the layout returned still has them at 1, 0
C15_Witness ==
  /\ processed
  /\ Len(jsonData) > 1
  /\ jsonData[1] = <<Projekt, Szam, Polc>>
  /\ headerInfo.columnMap.plateNumber = 0
  /\ headerInfo.columnMap.workHistory = 1

\* C16: when a header row is detected at row r, the rows handed to the row
\* grouper are the rows after r.
C16_DataStartsAfterHeader ==
  (processed /\ Len(jsonData) > 0 /\ HeaderRowFrom(jsonData, 0) # NoRow) =>
    sheetDataRows = SubSeq(jsonData, HeaderRowFrom(jsonData, 0) + 2, Len(jsonData))

(***************************************************************************)
(* C17                                                                      *)
(***************************************************************************)
\* the plates of the inventory documents in the permanent data directory
WrittenPlates ==
  UNION {{permanentDir[f].config.plates[i] :
            i \in 1..Len(permanentDir[f].config.plates)} :
         f \in {g \in DOMAIN permanentDir : IsInventory(g)}}

\* C17: in every inventory document written, a plate has at most one entry
\* in modelFiles; when it has one, the entry is the primary one and
\* currentModelFile is its relativePath, and when it has none,
\* currentModelFile is null.
C17_AtMostOneModel ==
  \A plate \in WrittenPlates :
    /\ Len(plate.modelFiles) <= 1
    /\ Len(plate.modelFiles) = 1 =>
         /\ plate.currentModelFile = plate.modelFiles[1].relativePath
         /\ plate.modelFiles[1].isPrimary
    /\ Len(plate.modelFiles) = 0 => plate.currentModelFile = <<Null>>

\* a document has been written in which plate 12A is linked to the model of
\* folder 12A
C17_Witness ==
  \E plate \in WrittenPlates :
    /\ plate.plateNumber = <<"1", "2", "A">>
    /\ Len(plate.modelFiles) = 1
    /\ plate.currentModelFile = RelativePath(<<"1", "2", "A">>, File("a", ".step"))

(***************************************************************************)
(* C18, C19, C20                                                            *)
(***************************************************************************)
\* the plate the last operation was called on, before and after the call
Before == platesBefore[lastCall.plateId]

After == platesMap[lastCall.plateId]

\* C18: startWork on a plate that is locked or already in use throws and
\* leaves the plates in memory and the plates in storage as they were.
C18_LockedOrInUseRefused ==
  [][(/\ opCount' = opCount + 1
      /\ lastCall'.op = "startWork"
      /\ lastCall'.plateId \in DOMAIN platesMap
      /\ \/ platesMap[lastCall'.plateId].health = "locked"
         \/ platesMap[lastCall'.plateId].occupancy = "in-use")
     => (/\ lastCall'.threw
         /\ platesMap' = platesMap
         /\ savedPlates' = savedPlates)]_vars

\* startWork has been refused on a locked plate that is free and on hand
C18_Witness ==
  /\ lastCall.op = "startWork"
  /\ lastCall.threw
  /\ lastCall.plateId \in DOMAIN platesBefore
  /\ Before.health = "locked"
  /\ Before.occupancy = "free"
  /\ platesMap = platesBefore

\* C19: after a startWork that succeeded on a plate whose health was new, the
\* plate has health used, occupancy in-use and the work order as lastWorkName.
C19_NewBecomesUsedOnStart ==
  (/\ lastCall.op = "startWork"
   /\ ~lastCall.threw
   /\ Before.health = "new")
  => (/\ After.health = "used"
      /\ After.occupancy = "in-use"
      /\ After.lastWorkName = ValidWorkOrder)

\* C20: an operation that succeeded and left the plate with a stored field
\* changed has appended a history entry that names the user and the date.
C20_EveryChangeInHistory ==
  (/\ lastCall.op \in {"createPlate", "updatePlate", "startWork", "finishWork"}
   /\ ~lastCall.threw
   /\ lastCall.plateId \in DOMAIN platesBefore
   /\ \E field \in DOMAIN After \ {"history"} : After[field] # Before[field])
  => (/\ After.history # Before.history
      /\ After.history # <<>>
      /\ After.history[Len(After.history)].user = lastCall.user
      /\ After.history[Len(After.history)].date = now)

(***************************************************************************)
(* C21                                                                      *)
(***************************************************************************)
\* the grouper's loop state after the first k data rows of the worksheet
GroupStateAfter(k) ==
  GroupRows([plates |-> <<>>, current |-> <<>>, currentRowIndex |-> 2],
            SubSeq(sheetDataRows, 1, k), headerInfo.columnMap, cellStyles, SheetName)

\* data row k has an empty plate-number cell, is not empty altogether, and a
\* plate is active when the loop reaches it
IsContinuationRow(k) ==
  /\ k \in 1..Len(sheetDataRows)
  /\ GroupStateAfter(k - 1).current # <<>>
  /\ CellText(sheetDataRows[k], headerInfo.columnMap.plateNumber) = <<>>
  /\ \E col \in 0..4 : CellText(sheetDataRows[k], col) # <<>>

ActiveBefore(k) == GroupStateAfter(k - 1).current[1]

ActiveAfter(k) == GroupStateAfter(k).current[1]

\* C21: a continuation row leaves boxSize and isLocked of the active record as
\* they were, and leaves shelfNumber and previewImage as they were whenever the
\* record already held a value for them (first non-empty value wins).
C21_FirstNonEmptyWins ==
  processed =>
    \A k \in 1..Len(sheetDataRows) :
      IsContinuationRow(k) =>
        /\ ActiveAfter(k).boxSize = ActiveBefore(k).boxSize
        /\ ActiveAfter(k).isLocked = ActiveBefore(k).isLocked
        /\ ActiveBefore(k).shelfNumber \notin {<<>>, Unknown}
             => ActiveAfter(k).shelfNumber = ActiveBefore(k).shelfNumber
        /\ ActiveBefore(k).previewImage # <<>>
             => ActiveAfter(k).previewImage = ActiveBefore(k).previewImage
        /\ ActiveAfter(k).shelfNumber
             \in {ActiveBefore(k).shelfNumber,
                  CellText(sheetDataRows[k], headerInfo.columnMap.shelfNumber)}
        /\ ActiveAfter(k).previewImage
             \in {ActiveBefore(k).previewImage,
                  CellText(sheetDataRows[k], headerInfo.columnMap.previewImage)}

\* a red continuation row with another shelf, another image and a box size
\* has met a record that held a shelf and an image, and the record is part of
\* the result with the values it held
C21_Witness ==
  /\ processed
  /\ \E k \in 1..Len(sheetDataRows) :
       /\ IsContinuationRow(k)
       /\ ActiveBefore(k).shelfNumber \notin {<<>>, Unknown}
       /\ ActiveBefore(k).previewImage # <<>>
       /\ ActiveBefore(k).boxSize = Unknown
       /\ ~ActiveBefore(k).isLocked
       /\ CellText(sheetDataRows[k], headerInfo.columnMap.shelfNumber)
            \notin {<<>>, ActiveBefore(k).shelfNumber}
       /\ CellText(sheetDataRows[k], headerInfo.columnMap.previewImage)
            \notin {<<>>, ActiveBefore(k).previewImage}
       /\ CellText(sheetDataRows[k], headerInfo.columnMap.boxSize) # <<>>
       /\ cellStyles[k + 3] = RedSolid
       /\ k = Len(sheetDataRows)
       /\ plateData[Len(plateData)].shelfNumber = ActiveBefore(k).shelfNumber
       /\ plateData[Len(plateData)].previewImage = ActiveBefore(k).previewImage

(***************************************************************************)
(* C22                                                                      *)
(***************************************************************************)
\* C22: a data row whose cells in the five mapped columns are all empty
\* changes no record: the finished plates and the active record, its source
\* rows included, are after the row what they were before it.
C22_EmptyMappedColumnsSkipped ==
  processed =>
    \A k \in 1..Len(sheetDataRows) :
      (\A col \in 0..4 : CellText(sheetDataRows[k], col) = <<>>)
        => /\ GroupStateAfter(k).plates = GroupStateAfter(k - 1).plates
           /\ GroupStateAfter(k).current = GroupStateAfter(k - 1).current

(***************************************************************************)
(* C23                                                                      *)
(***************************************************************************)
\* C23: the record of a plate is locked exactly when the plate-number cell of
\* the worksheet row that starts the plate has a red fill or the plate number
\* is in the manual list; no other row's cell takes part.
C23_OwnCellDecidesLock ==
  processed =>
    \A p \in 1..Len(plateData) :
      LET i == Nth(StartRows, p)
      IN  plateData[p].isLocked
            <=> \/ hasRedBackground(cellStyles, WorksheetRowOf(i) + 1, 0)
                \/ PlateValue(i) \in manuallyLockedPlates

(***************************************************************************)
(* C24                                                                      *)
(***************************************************************************)
\* the places of plate i of the document that hold the model path r, and
\* those that hold the work-history entry k
ModelPlaces(i, r) ==
  {n \in 1..Len(document.plates[i].modelFiles) :
     document.plates[i].modelFiles[n].relativePath = r}

ProjectPlaces(i, k) ==
  {n \in 1..Len(document.plates[i].workProjects) :
     document.plates[i].workProjects[n].fullEntry = k}

\* entry e of a usedByPlates list names plate i of the document
Names(e, i) ==
  /\ e.plateId = document.plates[i].id
  /\ e.plateNumber = document.plates[i].plateNumber
  /\ e.shelfNumber = document.plates[i].shelfNumber

DistinctIds ==
  \A i, j \in 1..Len(document.plates) :
    document.plates[i].id = document.plates[j].id => i = j

DocPlates == 1..Len(document.plates)

\* usedByPlates is the list of one index entry, places[i] the places where
\* plate i holds the key of that entry
ListAgrees(usedByPlates, places) ==
  /\ usedByPlates # <<>>
  /\ Len(usedByPlates)
       = Cardinality(UNION {{<<i, n>> : n \in places[i]} : i \in DocPlates})
  /\ \A n \in 1..Len(usedByPlates) :
       \E i \in DocPlates : Names(usedByPlates[n], i) /\ places[i] # {}
  /\ \A i \in DocPlates :
       places[i] # {} => \E n \in 1..Len(usedByPlates) : Names(usedByPlates[n], i)
  /\ DistinctIds =>
       \A i \in DocPlates :
         (\E n \in 1..Len(usedByPlates) :
            usedByPlates[n].plateId = document.plates[i].id)
           <=> places[i] # {}

\* C24: in the document generateJsonConfig returns, the keys of modelIndex are
\* the relativePaths of the plates' modelFiles and the keys of workHistoryIndex
\* the fullEntries of the plates' workProjects; the usedByPlates list of a key
\* is not empty, has one entry per place the key is held at, each entry
\* naming a plate of the document that holds the key, and with distinct plate
\* ids a plate's id is in the list exactly when the plate holds the key.
C24_IndicesAgreeWithPlates ==
  generated =>
    /\ DOMAIN document.modelIndex
         = UNION {{document.plates[i].modelFiles[n].relativePath :
                     n \in 1..Len(document.plates[i].modelFiles)} : i \in DocPlates}
    /\ DOMAIN document.workHistoryIndex
         = UNION {{document.plates[i].workProjects[n].fullEntry :
                     n \in 1..Len(document.plates[i].workProjects)} : i \in DocPlates}
    /\ \A r \in DOMAIN document.modelIndex :
         ListAgrees(document.modelIndex[r].usedByPlates,
                    [i \in DocPlates |-> ModelPlaces(i, r)])
    /\ \A k \in DOMAIN document.workHistoryIndex :
         ListAgrees(document.workHistoryIndex[k].usedByPlates,
                    [i \in DocPlates |-> ProjectPlaces(i, k)])

\* the document of three plates with distinct numbers: a model used by one
\* plate only although another plate has models too, and a work order used by
\* two of the plates and not by the third
C24_Witness ==
  /\ generated
  /\ Len(document.plates) = 3
  /\ \E r \in DOMAIN document.modelIndex :
       /\ Len(document.modelIndex[r].usedByPlates) = 1
       /\ \E i \in DocPlates :
            ModelPlaces(i, r) = {} /\ Len(document.plates[i].modelFiles) = 2
  /\ \E k \in DOMAIN document.workHistoryIndex :
       /\ Len(document.workHistoryIndex[k].usedByPlates) = 2
       /\ document.workHistoryIndex[k].usedByPlates[1].plateNumber
            # document.workHistoryIndex[k].usedByPlates[2].plateNumber
       /\ \E i \in DocPlates : ProjectPlaces(i, k) = {}

(***************************************************************************)
(* C25                                                                      *)
(***************************************************************************)
\* every directory the run lists can be listed
RunListsEverything ==
  /\ scanDir.exists /\ scanDir.readable
  /\ modelsDir.readable
  /\ \A i \in 1..Len(scanDir.entries) : scanDir.entries[i].readable
  /\ \A i \in 1..Len(modelsDir.entries) : modelsDir.entries[i].readable

\* C25: a run whose validateModelFolders returned valid, and in which every
\* directory can be listed, is not ended by the scan: scanModelFiles reports
\* no issue and the run goes on to the matching and the write.
C25_ValidatorAndScanAgree ==
  \A r \in Runs :
    (/\ validationOf[r] = "valid"
     /\ RunListsEverything
     /\ pc[r] \notin {"processExcel", "extractImages", "validate", "scan"})
      => (scanIssuesOf[r] = 0 /\ pc[r] # "exited")

(***************************************************************************)
(* C26, C27                                                                 *)
(***************************************************************************)
\* C26: no plate in memory or in storage is locked and in use at once.
C26_NeverLockedAndInUse ==
  /\ \A id \in DOMAIN platesMap :
       ~(platesMap[id].health = "locked" /\ platesMap[id].occupancy = "in-use")
  /\ \A id \in DOMAIN savedPlates :
       ~(savedPlates[id].health = "locked" /\ savedPlates[id].occupancy = "in-use")

\* C27: an operation that threw has left the plates in memory as they were,
\* and the plates in memory are the plates of the last successful save.
C27_ThrowLeavesMemoryUnchanged ==
  /\ lastCall.threw => platesMap = platesBefore
  /\ platesMap = savedPlates

(***************************************************************************)
(* C29                                                                      *)
(***************************************************************************)
\* C29: the history of every plate has at most maxHistoryEntries entries, and
\* an updatePlate, startWork or finishWork that added an entry has kept the
\* entries the plate had, but for the oldest one when the history was full,
\* and has put the new entry last.
C29_HistoryBounded ==
  /\ \A id \in DOMAIN platesMap : Len(platesMap[id].history) <= maxHistoryEntries
  /\ \A id \in DOMAIN savedPlates : Len(savedPlates[id].history) <= maxHistoryEntries
  /\ (/\ lastCall.op \in {"updatePlate", "startWork", "finishWork"}
      /\ lastCall.plateId \in DOMAIN platesBefore
      /\ lastCall.plateId \in DOMAIN platesMap
      /\ After.history # Before.history)
     => (/\ Len(After.history)
             = IF Len(Before.history) < maxHistoryEntries
               THEN Len(Before.history) + 1 ELSE maxHistoryEntries
         /\ SubSeq(After.history, 1, Len(After.history) - 1)
             = SubSeq(Before.history, Len(Before.history) - Len(After.history) + 2,
                      Len(Before.history))
         /\ After.history[Len(After.history)].user = lastCall.user
         /\ After.history[Len(After.history)].action
             = CASE lastCall.op = "updatePlate" -> "updated"
                 [] lastCall.op = "startWork" -> "work_started"
                 [] lastCall.op = "finishWork" -> "work_finished")

\* a startWork has succeeded on a plate whose history was full: the oldest
\* entry is gone and the entry of the call is the last one
C29_Witness ==
  /\ lastCall.op = "startWork"
  /\ ~lastCall.threw
  /\ Len(Before.history) = maxHistoryEntries
  /\ Len(After.history) = maxHistoryEntries
  /\ After.history[1] = Before.history[2]
  /\ After.history[maxHistoryEntries].action = "work_started"
  /\ savedPlates = platesMap

(***************************************************************************)
(* C28                                                                      *)
(***************************************************************************)
StatusRank(status) ==
  CASE status = "pending" -> 1 [] status = "active" -> 2 [] status = "completed" -> 3

\* C28: every step keeps each work order and moves its status forward or not
\* at all, so that a work order that is active or completed is not pending
\* afterwards; startWorkOrder succeeds only from pending, completeWorkOrder
\* only from active, and a call that threw leaves the work orders unchanged.
C28_StatusOnlyMovesForward ==
  [][/\ \A id \in DOMAIN workOrders :
          /\ id \in DOMAIN workOrders'
          /\ StatusRank(workOrders'[id].status) >= StatusRank(workOrders[id].status)
     /\ lastOrderCall'.threw => workOrders' = workOrders
     /\ (lastOrderCall'.op = "startWorkOrder" /\ ~lastOrderCall'.threw)
          => workOrders[lastOrderCall'.plateId].status = "pending"
     /\ (lastOrderCall'.op = "completeWorkOrder" /\ ~lastOrderCall'.threw)
          => workOrders[lastOrderCall'.plateId].status = "active"]_vars

(***************************************************************************)
(* C30                                                                      *)
(***************************************************************************)
\* C30: once stop has been called after runAutoMode was invoked, runAutoMode
\* comes to its end.
C30_StopEndsAutoMode == stopCalled ~> execPc \in {"returned", "thrown"}
============================================================================
